---------------------------- MODULE Spec2Model ----------------------------
(***************************************************************************)
(* Model of the SSRF-safe outbound fetch layer of the BoDiGi MCP server:   *)
(*   src/src/utils/ssrf-safe-fetch.ts  (validateUrl, safeFetch)            *)
(*   src/src/config/index.ts           (configSchema, loadConfig,          *)
(*                                      getConfig)                         *)
(*                                                                         *)
(* Strings are sequences of one-character strings, so that the string      *)
(* tests of the code (startsWith, endsWith, includes, the regular          *)
(* expressions, toLowerCase, split, trim) are computed character by        *)
(* character, the way the code computes them.                              *)
(***************************************************************************)
EXTENDS Integers, Sequences, FiniteSets, TLC

(***************************************************************************)
(* String literals.                                                        *)
(***************************************************************************)
s_http == <<"h","t","t","p">>
s_https == <<"h","t","t","p","s">>
s_HTTP == <<"H","T","T","P">>
s_HTTPS == <<"H","T","T","P","S">>
s_Https == <<"H","t","t","p","s">>
s_ftp == <<"f","t","p">>
s_file == <<"f","i","l","e">>
s_javascript == <<"j","a","v","a","s","c","r","i","p","t">>
s_data == <<"d","a","t","a">>
s_localhost == <<"l","o","c","a","l","h","o","s","t">>
s_LOCALHOST == <<"L","O","C","A","L","H","O","S","T">>
s_metadata_google_internal == <<"m","e","t","a","d","a","t","a",".","g","o","o","g","l","e",".","i","n","t","e","r","n","a","l">>
s_169_254_169_254 == <<"1","6","9",".","2","5","4",".","1","6","9",".","2","5","4">>
s_100_100_100_200 == <<"1","0","0",".","1","0","0",".","1","0","0",".","2","0","0">>
s_wikipedia_org == <<"w","i","k","i","p","e","d","i","a",".","o","r","g">>
s_en_wikipedia_org == <<"e","n",".","w","i","k","i","p","e","d","i","a",".","o","r","g">>
s_EN_Wikipedia_ORG == <<"E","N",".","W","i","k","i","p","e","d","i","a",".","O","R","G">>
s_notwikipedia_org == <<"n","o","t","w","i","k","i","p","e","d","i","a",".","o","r","g">>
s_wikipedia_org_evil_com == <<"w","i","k","i","p","e","d","i","a",".","o","r","g",".","e","v","i","l",".","c","o","m">>
s_mit_edu == <<"m","i","t",".","e","d","u">>
s_mit_edu_evil_com == <<"m","i","t",".","e","d","u",".","e","v","i","l",".","c","o","m">>
s_example_com == <<"e","x","a","m","p","l","e",".","c","o","m">>
s_github_com == <<"g","i","t","h","u","b",".","c","o","m">>
s_evil_com == <<"e","v","i","l",".","c","o","m">>
s_cafe == <<"c","a","f","e">>
s_v6_loopback == <<":",":","1">>
s_v6_fe80_1 == <<"f","e","8","0",":",":","1">>
s_v6_FE80_1 == <<"F","E","8","0",":",":","1">>
s_v6_febf_1 == <<"f","e","b","f",":",":","1">>
s_v6_fc00_1 == <<"f","c","0","0",":",":","1">>
s_v6_fd00_1 == <<"f","d","0","0",":",":","1">>
s_v6_fd12 == <<"f","d","1","2",":","3","4","5","6",":",":","1">>
s_v6_fcab_1 == <<"f","c","a","b",":",":","1">>
s_v6_public == <<"2","0","0","1",":","d","b","8",":",":","1">>
env_default == <<"w","i","k","i","p","e","d","i","a",".","o","r","g",",","g","i","t","h","u","b",".","c","o","m",",",".","e","d","u",",",".","g","o","v">>
env_wikipedia == <<"w","i","k","i","p","e","d","i","a",".","o","r","g">>
env_edu == <<".","e","d","u">>
env_spaced == <<" ","w","i","k","i","p","e","d","i","a",".","o","r","g"," ",","," ",".","e","d","u"," ",",",",">>
env_ipSuffix == <<".","1",",",".","2","5","5",",","2","3","9",".","0",".","0",".","1",",","1","0",".","0",".","0",".","1",",","1","2","7",".","0",".","0",".","1",",","e","x","a","m","p","l","e",".","c","o","m">>
env_blockedNames == <<"l","o","c","a","l","h","o","s","t",",","1","6","9",".","2","5","4",".","1","6","9",".","2","5","4",",","m","e","t","a","d","a","t","a",".","g","o","o","g","l","e",".","i","n","t","e","r","n","a","l",",","1","0","0",".","1","0","0",".","1","0","0",".","2","0","0">>
env_v6 == <<"[",":",":","1","]",",","[","f","e","8","0",":",":","1","]",",","[","f","d","1","2",":","3","4","5","6",":",":","1","]",",","[","f","e","b","f",":",":","1","]",",","[","f","c","a","b",":",":","1","]">>
env_blank == <<" ",",">>
msg_aborted == <<"T","h","i","s"," ","o","p","e","r","a","t","i","o","n"," ","w","a","s"," ","a","b","o","r","t","e","d">>
msg_fetch_failed == <<"f","e","t","c","h"," ","f","a","i","l","e","d">>
s_open_script == <<"<","s","c","r","i","p","t">>
s_close_script == <<"<","/","s","c","r","i","p","t",">">>
s_open_style == <<"<","s","t","y","l","e">>
s_close_style == <<"<","/","s","t","y","l","e",">">>
s_open_title == <<"<","t","i","t","l","e">>
s_close_title == <<"<","/","t","i","t","l","e",">">>
html_title_cat == <<"<","t","i","t","l","e",">","C","a","t","<","/","t","i","t","l","e",">">>
html_script == <<"<","s","c","r","i","p","t",">","e","v","i","l","(",")","<","/","s","c","r","i","p","t",">">>
html_p_cats == <<"<","p",">","C","a","t","s"," ","a","r","e"," ","g","r","e","a","t","<","/","p",">">>
html_style == <<"<","S","T","Y","L","E"," ","t","y","p","e","=","x",">","p","{","}","<","/","S","t","y","l","e",">">>
html_spaces == <<" "," ","C","a","t","s"," "," ","a","r","e"," ">>
html_title_dog == <<"<","T","i","t","l","e"," ","l","a","n","g","=","e","n",">"," ","D","o","g"," ","<","/","T","I","T","L","E",">">>
html_lt == <<"a"," ","<"," ","b">>
html_open_script == <<"<","s","c","r","i","p","t",">","x">>
s_Cat == <<"C","a","t">>
s_Cats_are_great == <<"C","a","t","s"," ","a","r","e"," ","g","r","e","a","t">>
s_Cat_Cats_are_great == <<"C","a","t"," ","C","a","t","s"," ","a","r","e"," ","g","r","e","a","t">>
st_OK == <<"O","K">>
st_No_Content == <<"N","o"," ","C","o","n","t","e","n","t">>
st_Found == <<"F","o","u","n","d">>
st_Not_Found == <<"N","o","t"," ","F","o","u","n","d">>
st_Internal_Server_Error == <<"I","n","t","e","r","n","a","l"," ","S","e","r","v","e","r"," ","E","r","r","o","r">>
env_verbose == <<"v","e","r","b","o","s","e">>
env_info == <<"i","n","f","o">>
msg_invalid_configuration == <<"I","n","v","a","l","i","d"," ","c","o","n","f","i","g","u","r","a","t","i","o","n">>
html_script_p == <<"<","s","c","r","i","p","t",">","e","v","i","l","(",")","<","/","s","c","r","i","p","t",">","<","p",">","C","a","t","s"," ","a","r","e"," ","g","r","e","a","t","<","/","p",">">>
html_tit == <<"<","t","i","t">>
html_le_dog == <<"l","e"," ","l","a","n","g","=","e","n",">"," ","D","o","g"," ","<","/","T","I","T","L","E",">">>
html_scr == <<"<","p",">","x","<","/","p",">","<","s","c","r">>
html_ipt == <<"i","p","t",">","e","v","i","l","(",")","<","/","S","C","R","I","P","T"," ",">","<","b",">","y","<","/","b",">","<","/","s","c","r","i","p","t",">","z">>
html_empty_title == <<"<","t","i","t","l","e",">","<","/","t","i","t","l","e",">","<",">">>
s_evilwikipedia_org_attacker_com == <<"e","v","i","l","w","i","k","i","p","e","d","i","a",".","o","r","g",".","a","t","t","a","c","k","e","r",".","c","o","m">>
s_github_com_attacker_net == <<"g","i","t","h","u","b",".","c","o","m",".","a","t","t","a","c","k","e","r",".","n","e","t">>
s_docs_dot == <<"d","o","c","s",".">>
s_api_dot == <<"a","p","i",".">>
s_dot_edu == <<".","e","d","u">>
s_dot_gov == <<".","g","o","v">>
s_docs_python_org == <<"d","o","c","s",".","p","y","t","h","o","n",".","o","r","g">>
s_nasa_gov == <<"n","a","s","a",".","g","o","v">>
s_api_github_com == <<"a","p","i",".","g","i","t","h","u","b",".","c","o","m">>
s_file_slashes == <<"f","i","l","e",":","/","/">>
s_javascript_colon == <<"j","a","v","a","s","c","r","i","p","t",":">>
s_colon_slashes == <<":","/","/">>
s_Bearer_sp == <<"B","e","a","r","e","r"," ">>
key_alpha == <<"k","1">>
env_keys_two == <<"k","1",","," ","k","2">>
hdr_alpha == <<"B","e","a","r","e","r"," ","k","1">>
hdr_beta == <<"B","e","a","r","e","r"," ","k","2">>
hdr_unknown == <<"B","e","a","r","e","r"," ","z","z">>
hdr_basic == <<"B","a","s","i","c"," ","k","1">>
hdr_lower == <<"b","e","a","r","e","r"," ","k","1">>
hdr_untrimmed == <<"B","e","a","r","e","r"," "," ","k","1">>
msg_unique_failed == <<"U","N","I","Q","U","E"," ","c","o","n","s","t","r","a","i","n","t"," ","f","a","i","l","e","d",":"," ","k","n","o","w","l","e","d","g","e","_","i","t","e","m","s",".","c","o","n","t","e","n","t","_","h","a","s","h">>
msg_terminated == <<"t","e","r","m","i","n","a","t","e","d">>

(***************************************************************************)
(* JavaScript string primitives.                                           *)
(***************************************************************************)
UpperAlpha == <<"A","B","C","D","E","F","G","H","I","J","K","L","M","N","O","P","Q","R","S","T","U","V","W","X","Y","Z">>
LowerAlpha == <<"a","b","c","d","e","f","g","h","i","j","k","l","m","n","o","p","q","r","s","t","u","v","w","x","y","z">>
DecDigits == <<"0","1","2","3","4","5","6","7","8","9">>

IsUpper(c) == \E i \in DOMAIN UpperAlpha : UpperAlpha[i] = c

LowerChar(c) == IF IsUpper(c) THEN LowerAlpha[CHOOSE i \in DOMAIN UpperAlpha : UpperAlpha[i] = c] ELSE c

\* String.prototype.toLowerCase
toLowerCase(s) == [i \in 1..Len(s) |-> LowerChar(s[i])]

\* String.prototype.startsWith
startsWith(s, p) == Len(p) <= Len(s) /\ SubSeq(s, 1, Len(p)) = p

\* String.prototype.endsWith
endsWith(s, p) == Len(p) <= Len(s) /\ SubSeq(s, Len(s) - Len(p) + 1, Len(s)) = p

\* String.prototype.includes
includes(s, p) == \E i \in 0..(Len(s) - Len(p)) : SubSeq(s, i + 1, i + Len(p)) = p

IsDigit(c) == \E i \in DOMAIN DecDigits : DecDigits[i] = c

\* the character class [a-f0-9:] under the i flag
IsHexOrColon(c) == IsDigit(c) \/ c \in {"a","b","c","d","e","f","A","B","C","D","E","F",":"}

IsSpace(c) == c \in {" ", "\t", "\n"}

RECURSIVE split(_, _)
\* String.prototype.split on a one-character separator
split(s, sep) ==
  IF \E i \in 1..Len(s) : s[i] = sep
  THEN LET i == CHOOSE k \in 1..Len(s) : s[k] = sep /\ \A j \in 1..(k - 1) : s[j] # sep
       IN  <<SubSeq(s, 1, i - 1)>> \o split(SubSeq(s, i + 1, Len(s)), sep)
  ELSE <<s>>

RECURSIVE trimStart(_)
trimStart(s) == IF s # <<>> /\ IsSpace(Head(s)) THEN trimStart(Tail(s)) ELSE s

RECURSIVE trimEnd(_)
trimEnd(s) == IF s # <<>> /\ IsSpace(s[Len(s)]) THEN trimEnd(SubSeq(s, 1, Len(s) - 1)) ELSE s

\* String.prototype.trim
trim(s) == trimEnd(trimStart(s))

RECURSIVE join(_, _)
\* Array.prototype.join
join(parts, sep) ==
  IF parts = <<>> THEN <<>>
  ELSE IF Len(parts) = 1 THEN parts[1]
  ELSE parts[1] \o sep \o join(Tail(parts), sep)

RECURSIVE ToDec(_)
\* decimal text of a natural number
ToDec(n) == IF n < 10 THEN <<DecDigits[n + 1]>> ELSE ToDec(n \div 10) \o <<DecDigits[(n % 10) + 1]>>

(***************************************************************************)
(* new URL(url): the WHATWG URL parser, as far as validateUrl reads its    *)
(* result.  The input is the URL by its parts: scheme as written, and the  *)
(* host as written (a name, an IPv4 address by its octets, the text of an  *)
(* IPv6 address between its brackets, no host at all, or text that does    *)
(* not parse).  The parser lower-cases the scheme, lower-cases the host of *)
(* a special scheme, serialises an IPv4 host as dotted decimal and an IPv6 *)
(* host between square brackets.                                           *)
(***************************************************************************)
SpecialSchemes == {s_http, s_https, s_ftp, s_file}

RawUrl(scheme, kind, name, octets) == [scheme |-> scheme, kind |-> kind, name |-> name, octets |-> octets]

NameUrl(scheme, name) == RawUrl(scheme, "name", name, <<>>)
Ipv4Url(scheme, octets) == RawUrl(scheme, "ipv4", <<>>, octets)
Ipv6Url(scheme, text) == RawUrl(scheme, "ipv6", text, <<>>)
NoHostUrl(scheme) == RawUrl(scheme, "none", <<>>, <<>>)
MalformedUrl == RawUrl(<<>>, "malformed", <<>>, <<>>)

DottedDecimal(o) == ToDec(o[1]) \o <<".">> \o ToDec(o[2]) \o <<".">> \o ToDec(o[3]) \o <<".">> \o ToDec(o[4])

IsSpecial(url) == toLowerCase(url.scheme) \in SpecialSchemes

URLHostname(url) ==
  CASE url.kind = "name" -> IF IsSpecial(url) THEN toLowerCase(url.name) ELSE url.name
    [] url.kind = "ipv4" -> DottedDecimal(url.octets)
    [] url.kind = "ipv6" -> <<"[">> \o toLowerCase(url.name) \o <<"]">>
    [] OTHER -> <<>>

\* ok = FALSE: the constructor throws a TypeError
URLParse(url) ==
  IF url.kind = "malformed" \/ url.scheme = <<>> \/ (url.kind = "none" /\ IsSpecial(url) /\ toLowerCase(url.scheme) # s_file)
  THEN [ok |-> FALSE, protocol |-> <<>>, hostname |-> <<>>]
  ELSE [ok |-> TRUE, protocol |-> toLowerCase(url.scheme) \o <<":">>, hostname |-> URLHostname(url)]

(***************************************************************************)
(* src/src/config/index.ts                                                 *)
(***************************************************************************)
\* an environment variable: unset, or set to a text
Unset == [defined |-> FALSE, value |-> <<>>]
SetTo(text) == [defined |-> TRUE, value |-> text]

\* ALLOWED_DOMAINS: z.string().default(...).transform(split, trim, filter(Boolean))
ParseAllowedDomains(e) ==
  LET val == IF e.defined THEN e.value ELSE env_default
      parts == split(val, ",")
      trimmed == [i \in 1..Len(parts) |-> trim(parts[i])]
  IN  SelectSeq(trimmed, LAMBDA d : d # <<>>)

\* configSchema.parse(process.env), the fields the fetch layer reads
ConfigOf(env) ==
  [loaded |-> TRUE,
   ALLOWED_DOMAINS |-> ParseAllowedDomains(env.ALLOWED_DOMAINS),
   FETCH_TIMEOUT_MS |-> env.FETCH_TIMEOUT_MS,
   MAX_FETCH_BYTES |-> env.MAX_FETCH_BYTES]

\* let cachedConfig: Config | null = null
NullConfig == [loaded |-> FALSE, ALLOWED_DOMAINS |-> <<>>, FETCH_TIMEOUT_MS |-> 0, MAX_FETCH_BYTES |-> 0]

\* loadConfig(): the cached object if there is one, else a fresh parse
loadConfig(cached, env) == IF cached.loaded THEN cached ELSE ConfigOf(env)

\* getConfig(): the value returned; the cache holds the same value afterwards
getConfig(cached, env) == IF ~cached.loaded THEN loadConfig(cached, env) ELSE cached

\* LOG_LEVEL: z.enum([...]).default('info')
LogLevels == {<<"t","r","a","c","e">>, <<"d","e","b","u","g">>, env_info, <<"w","a","r","n">>, <<"e","r","r","o","r">>, <<"f","a","t","a","l">>}

\* configSchema.parse(process.env) returns: no ZodError is thrown
ConfigParses(env) == ~env.LOG_LEVEL.defined \/ env.LOG_LEVEL.value \in LogLevels

\* getConfig() throws: nothing is cached and loadConfig() throws
\* new Error('Invalid configuration')
getConfigThrows(cached, env) == ~cached.loaded /\ ~ConfigParses(env)

(***************************************************************************)
(* src/src/utils/ssrf-safe-fetch.ts: validateUrl                           *)
(***************************************************************************)
\* BLOCKED_HOSTNAMES without the metadata addresses, left to the IP patterns
BLOCKED_HOSTNAMES_NamesOnly == <<s_localhost, s_metadata_google_internal>>

BLOCKED_HOSTNAMES == <<s_localhost, s_metadata_google_internal, s_169_254_169_254, s_100_100_100_200>>

\* Matches172 with the range cut short: /^172\.(1[6-9]|2[0-9])\./
Matches172Short(h) ==
  /\ startsWith(h, <<"1","7","2",".">>)
  /\ Len(h) >= 7
  /\ \/ h[5] = "1" /\ h[6] \in {"6","7","8","9"}
     \/ h[5] = "2" /\ IsDigit(h[6])
  /\ h[7] = "."

\* /^172\.(1[6-9]|2[0-9]|3[0-1])\./
Matches172(h) ==
  /\ startsWith(h, <<"1","7","2",".">>)
  /\ Len(h) >= 7
  /\ \/ h[5] = "1" /\ h[6] \in {"6","7","8","9"}
     \/ h[5] = "2" /\ IsDigit(h[6])
     \/ h[5] = "3" /\ h[6] \in {"0","1"}
  /\ h[7] = "."

NumBlockedPatterns == 13

\* BLOCKED_PATTERNS[i].test(h), i counted from 1
BlockedPatternTest(i, h) ==
  CASE i = 1 -> startsWith(h, <<"1","2","7",".">>)
    [] i = 2 -> startsWith(h, <<"1","0",".">>)
    [] i = 3 -> Matches172(h)
    [] i = 4 -> startsWith(h, <<"1","9","2",".","1","6","8",".">>)
    [] i = 5 -> startsWith(h, <<"1","6","9",".","2","5","4",".">>)
    [] i = 6 -> startsWith(h, <<"0",".">>)
    [] i = 7 -> startsWith(h, <<"2","2","4",".">>)
    [] i = 8 -> startsWith(h, <<"2","4","0",".">>)
    [] i = 9 -> startsWith(h, <<"2","5","5",".","2","5","5",".","2","5","5",".","2","5","5">>)
    [] i = 10 -> h = <<":",":","1">>
    [] i = 11 -> startsWith(h, <<"f","e","8","0",":">>)
    [] i = 12 -> startsWith(h, <<"f","c","0","0",":">>)
    [] i = 13 -> startsWith(h, <<"f","d","0","0",":">>)

\* /^(\d{1,3}\.){3}\d{1,3}$/
MatchesIPv4Regex(h) ==
  LET parts == split(h, ".")
  IN  /\ Len(parts) = 4
      /\ \A i \in 1..4 : Len(parts[i]) \in 1..3 /\ \A j \in 1..Len(parts[i]) : IsDigit(parts[i][j])

\* /^\[?([a-f0-9:]+)\]?$/i
MatchesIPv6Regex(h) ==
  \E a \in {0, 1}, b \in {0, 1} :
    /\ Len(h) - a - b >= 1
    /\ a = 1 => h[1] = "["
    /\ b = 1 => h[Len(h)] = "]"
    /\ \A j \in (1 + a)..(Len(h) - b) : IsHexOrColon(h[j])

ipMatch(h) == MatchesIPv4Regex(h) \/ MatchesIPv6Regex(h)

\* the loop over BLOCKED_PATTERNS
InBlockedRange(h) == \E i \in 1..NumBlockedPatterns : BlockedPatternTest(i, h)

\* isAllowed by substring: hostname.includes(domain)
isAllowedSubstring(hostname, allowedDomains) ==
  \E k \in 1..Len(allowedDomains) : includes(hostname, allowedDomains[k])

\* isAllowed with every(...) for some(...): an empty list allows every host
isAllowedEvery(hostname, allowedDomains) ==
  \A k \in 1..Len(allowedDomains) :
    LET domain == allowedDomains[k]
    IN  IF startsWith(domain, <<".">>)
        THEN endsWith(hostname, domain)
        ELSE hostname = domain \/ endsWith(hostname, <<".">> \o domain)

\* allowedDomains.some(...)
isAllowed(hostname, allowedDomains) ==
  \E k \in 1..Len(allowedDomains) :
    LET domain == allowedDomains[k]
    IN  IF startsWith(domain, <<".">>)
        THEN endsWith(hostname, domain)
        ELSE hostname = domain \/ endsWith(hostname, <<".">> \o domain)

\* the reasons validateUrl gives
Reason(text, hostname, allowed) == [text |-> text, hostname |-> hostname, allowed |-> allowed]
ReasonProtocol == Reason("Only HTTP and HTTPS protocols are allowed", <<>>, <<>>)
ReasonBlockedHostname(h) == Reason("Hostname is blocked", h, <<>>)
ReasonBlockedRange(h) == Reason("IP address is in a blocked range", h, <<>>)
ReasonNotAllowed(h, allowed) == Reason("Domain is not in the allowed list", h, join(allowed, <<",", " ">>))
ReasonInvalidFormat == Reason("Invalid URL format", <<>>, <<>>)
NoReason == Reason("", <<>>, <<>>)

Invalid(reason) == [valid |-> FALSE, reason |-> reason]
Valid == [valid |-> TRUE, reason |-> NoReason]

\* ProtocolAllowed with ftp: let through as well
ProtocolAllowedWithFtp(protocol) == protocol \in {s_http \o <<":">>, s_https \o <<":">>, s_ftp \o <<":">>}

\* ['http:', 'https:'].includes(urlObj.protocol)
ProtocolAllowed(protocol) == protocol \in {s_http \o <<":">>, s_https \o <<":">>}

\* validateUrl(url), config being what getConfig() returns
validateUrl(url, config) ==
  LET urlObj == URLParse(url)
      hostname == toLowerCase(urlObj.hostname)
  IN  IF ~urlObj.ok THEN Invalid(ReasonInvalidFormat)
      ELSE IF ~ProtocolAllowed(urlObj.protocol) THEN Invalid(ReasonProtocol)
      ELSE IF \E i \in DOMAIN BLOCKED_HOSTNAMES : BLOCKED_HOSTNAMES[i] = hostname THEN Invalid(ReasonBlockedHostname(hostname))
      ELSE IF ipMatch(hostname) /\ InBlockedRange(hostname) THEN Invalid(ReasonBlockedRange(hostname))
      ELSE IF ~isAllowed(hostname, config.ALLOWED_DOMAINS) THEN Invalid(ReasonNotAllowed(hostname, config.ALLOWED_DOMAINS))
      ELSE Valid

(***************************************************************************)
(* The text of a response: decoding, title, sanitised content, hash.       *)
(***************************************************************************)
\* the least element of a non-empty set of numbers
Least(S) == CHOOSE k \in S : \A j \in S : k <= j

\* the least index k >= from with s[k] = c, or 0
IndexOfChar(s, from, c) ==
  LET S == {k \in from..Len(s) : s[k] = c}
  IN  IF S = {} THEN 0 ELSE Least(S)

\* pat stands at index i of s, letters compared without regard to case (the i flag)
MatchAtCI(s, i, pat) ==
  /\ i >= 1
  /\ i + Len(pat) - 1 <= Len(s)
  /\ toLowerCase(SubSeq(s, i, i + Len(pat) - 1)) = toLowerCase(pat)

\* the least index k >= from where pat stands, or 0
IndexOfCI(s, from, pat) ==
  LET S == {k \in from..Len(s) : MatchAtCI(s, k, pat)}
  IN  IF S = {} THEN 0 ELSE Least(S)

\* new TextDecoder().decode(buffer): UTF-8.  A byte is a one-character string
\* for an ASCII character; "C3" and "A9" are the two bytes of U+00E9, which
\* decode to the one character "E9"; a stray one of them decodes to "FFFD".
RECURSIVE TextDecode(_)
TextDecode(bytes) ==
  IF bytes = <<>> THEN <<>>
  ELSE IF Len(bytes) >= 2 /\ bytes[1] = "C3" /\ bytes[2] = "A9" THEN <<"E9">> \o TextDecode(SubSeq(bytes, 3, Len(bytes)))
  ELSE IF bytes[1] \in {"C3", "A9"} THEN <<"FFFD">> \o TextDecode(Tail(bytes))
  ELSE <<bytes[1]>> \o TextDecode(Tail(bytes))

\* the index where a match of /<open[^>]*>[\s\S]*?<\/close>/i that starts at i ends, or 0
BlockMatchEnd(s, i, open, close) ==
  IF ~MatchAtCI(s, i, open) THEN 0
  ELSE LET g == IndexOfChar(s, i + Len(open), ">")
           e == IF g = 0 THEN 0 ELSE IndexOfCI(s, g + 1, close)
       IN  IF e = 0 THEN 0 ELSE e + Len(close) - 1

RECURSIVE StripBlocks(_, _, _)
\* content.replace(/<open[^>]*>[\s\S]*?<\/close>/gi, '')
StripBlocks(s, open, close) ==
  LET starts == {i \in 1..Len(s) : BlockMatchEnd(s, i, open, close) # 0}
  IN  IF starts = {} THEN s
      ELSE LET i == Least(starts)
               e == BlockMatchEnd(s, i, open, close)
           IN  SubSeq(s, 1, i - 1) \o StripBlocks(SubSeq(s, e + 1, Len(s)), open, close)

\* the index where a match of /<[^>]+>/ that starts at i ends, or 0
TagMatchEnd(s, i) ==
  IF s[i] # "<" THEN 0
  ELSE LET g == IndexOfChar(s, i + 1, ">")
       IN  IF g > i + 1 THEN g ELSE 0

RECURSIVE StripTags(_)
\* .replace(/<[^>]+>/g, ' ')
StripTags(s) ==
  LET starts == {i \in 1..Len(s) : TagMatchEnd(s, i) # 0}
  IN  IF starts = {} THEN s
      ELSE LET i == Least(starts)
           IN  SubSeq(s, 1, i - 1) \o <<" ">> \o StripTags(SubSeq(s, TagMatchEnd(s, i) + 1, Len(s)))

RECURSIVE CollapseSpace(_)
\* .replace(/\s+/g, ' ')
CollapseSpace(s) ==
  IF s = <<>> THEN <<>>
  ELSE IF IsSpace(s[1]) THEN <<" ">> \o CollapseSpace(trimStart(s))
  ELSE <<s[1]>> \o CollapseSpace(Tail(s))

\* cleanContent
CleanContent(content) ==
  trim(CollapseSpace(StripTags(StripBlocks(StripBlocks(content, s_open_script, s_close_script), s_open_style, s_close_style))))

\* the first group of the leftmost match of /<title[^>]*>([^<]+)<\/title>/i that
\* starts at i, or <<>> when there is no match at i
TitleGroupAt(s, i) ==
  IF ~MatchAtCI(s, i, s_open_title) THEN <<>>
  ELSE LET g == IndexOfChar(s, i + Len(s_open_title), ">")
           lt == IF g = 0 THEN 0 ELSE IndexOfChar(s, g + 1, "<")
       IN  IF lt > g + 1 /\ g # 0 /\ MatchAtCI(s, lt, s_close_title) THEN SubSeq(s, g + 1, lt - 1) ELSE <<>>

\* title: the trimmed group of the title element, else the hostname of the URL
TitleOf(content, u) ==
  LET starts == {i \in 1..Len(content) : TitleGroupAt(content, i) # <<>>}
  IN  IF starts # {} THEN trim(TitleGroupAt(content, Least(starts))) ELSE URLParse(u).hostname

\* crypto.createHash('sha256').update(text).digest('hex'): the digest of a
\* text, taken to be free of collisions
Sha256Hex(text) == [sha256 |-> text]

\* export function isFetchError(result)
isFetchError(r) == r.type = "FetchError"

\* details of a FetchError: a validation reason, an error message, or numbers
Details(reason, message, number) == [reason |-> reason, message |-> message, number |-> number]
NoDetails == Details(NoReason, <<>>, 0)

\* the contentHash of a value that is no FetchResult
NoHash == [sha256 |-> <<"none">>]

FetchError(u, reason, details) == [type |-> "FetchError", url |-> u, reason |-> reason, details |-> details, title |-> <<>>, content |-> <<>>, contentHash |-> NoHash, fetchedAt |-> 0, statusCode |-> 0]
\* interface FetchResult
FetchResult(u, title, content, contentHash, fetchedAt, statusCode) == [type |-> "FetchResult", url |-> u, reason |-> "", details |-> NoDetails, title |-> title, content |-> content, contentHash |-> contentHash, fetchedAt |-> fetchedAt, statusCode |-> statusCode]
NoResult == [type |-> "none", url |-> MalformedUrl, reason |-> "", details |-> NoDetails, title |-> <<>>, content |-> <<>>, contentHash |-> NoHash, fetchedAt |-> 0, statusCode |-> 0]
\* the promise of the call rejected with an Error of this message
Rejected(u, message) == [type |-> "rejected", url |-> u, reason |-> "", details |-> Details(NoReason, message, 0), title |-> <<>>, content |-> <<>>, contentHash |-> NoHash, fetchedAt |-> 0, statusCode |-> 0]

\* CatchError without the test for 'aborted': every exception is a 'Fetch Error'
CatchErrorNoTimeout(u, errorMessage, config) == FetchError(u, "Fetch Error", Details(NoReason, errorMessage, 0))

\* the catch block of safeFetch
CatchError(u, errorMessage, config) ==
  IF includes(errorMessage, <<"a","b","o","r","t","e","d">>)
  THEN FetchError(u, "Timeout", Details(NoReason, <<>>, config.FETCH_TIMEOUT_MS))
  ELSE FetchError(u, "Fetch Error", Details(NoReason, errorMessage, 0))

\* StatusOk that takes every status below 500 for a success
StatusOkBelow500(status) == status < 500

\* response.ok
StatusOk(status) == status \in 200..299

\* ExceedsCap with >= for >: a body of exactly the cap is refused
ExceedsCapInclusive(total, config) == total >= config.MAX_FETCH_BYTES

\* if (totalSize > config.MAX_FETCH_BYTES)
ExceedsCap(total, config) == total > config.MAX_FETCH_BYTES

\* StoreChunk with chunks.push(value) ahead of the test of the size
StoreChunkAlways(stored, value, exceeded) == Append(stored, value)

\* chunks.push(value), which the return under the test of the size skips
StoreChunk(stored, value, exceeded) == IF exceeded THEN stored ELSE Append(stored, value)

RECURSIVE Combine(_)
\* the buffer the chunks are copied into, one after the other
Combine(stored) == IF stored = <<>> THEN <<>> ELSE Head(stored) \o Combine(Tail(stored))

\* BuildResult with the hash taken of the decoded text, not of cleanContent
BuildResultHashRaw(u, stored, status, now) ==
  LET content == TextDecode(Combine(stored))
  IN  FetchResult(u, TitleOf(content, u), CleanContent(content), Sha256Hex(content), now, status)

\* BuildResult that keeps the text of the title element out of the content
BuildResultNoTitleText(u, stored, status, now) ==
  LET content == TextDecode(Combine(stored))
      cleanContent == CleanContent(StripBlocks(content, s_open_title, s_close_title))
  IN  FetchResult(u, TitleOf(content, u), cleanContent, Sha256Hex(cleanContent), now, status)

\* the end of the try block: the buffer, the decoded text, the title, the
\* sanitised content, its hash, the FetchResult
BuildResult(u, stored, status, now) ==
  LET content == TextDecode(Combine(stored))
      cleanContent == CleanContent(content)
  IN  FetchResult(u, TitleOf(content, u), cleanContent, Sha256Hex(cleanContent), now, status)

(***************************************************************************)
(* Bounds of the model.                                                    *)
(***************************************************************************)
MaxElapsed == 3
MaxRedirects == 1
MaxChunks == 2
MaxChunkLen == 2
MaxTimeoutMs == 2
MaxBytesCap == 3
SmallBodyCap == 20
LargeBodyCap == 64

(***************************************************************************)
(* Inputs.                                                                 *)
(***************************************************************************)
HttpSchemes == {s_http, s_https, s_HTTP, s_Https}
OtherSchemes == {s_ftp, s_file, s_javascript, s_data}

HostNames == {s_localhost, s_LOCALHOST, s_metadata_google_internal, s_wikipedia_org, s_en_wikipedia_org, s_EN_Wikipedia_ORG, s_notwikipedia_org, s_wikipedia_org_evil_com, s_mit_edu, s_mit_edu_evil_com, s_example_com, s_github_com, s_evil_com, s_cafe}

FirstOctets == {0, 1, 9, 10, 11, 100, 126, 127, 128, 169, 171, 172, 173, 191, 192, 193, 223, 224, 225, 239, 240, 241, 254, 255}
SecondOctets == {0, 15, 16, 17, 19, 20, 29, 30, 31, 32, 100, 167, 168, 169, 253, 254, 255}
Ipv4Hosts == {<<a, b, 0, 1>> : a \in FirstOctets, b \in SecondOctets} \cup {<<169, 254, 169, 254>>, <<100, 100, 100, 200>>, <<255, 255, 255, 255>>, <<127, 0, 0, 255>>, <<8, 8, 8, 8>>}

Ipv6Hosts == {s_v6_loopback, s_v6_fe80_1, s_v6_FE80_1, s_v6_febf_1, s_v6_fc00_1, s_v6_fd00_1, s_v6_fd12, s_v6_fcab_1, s_v6_public}

ValidateUrls ==
  {NameUrl(s, n) : s \in HttpSchemes \cup OtherSchemes, n \in HostNames}
  \cup {Ipv4Url(s, o) : s \in {s_http, s_ftp}, o \in Ipv4Hosts}
  \cup {Ipv6Url(s, t) : s \in {s_http, s_HTTPS, s_ftp}, t \in Ipv6Hosts}
  \cup {NoHostUrl(s) : s \in {s_http, s_file, s_javascript, s_data}}
  \cup {MalformedUrl}

AllowedDomainsEnvs == {Unset, SetTo(<<>>), SetTo(env_blank), SetTo(env_wikipedia), SetTo(env_edu), SetTo(env_spaced), SetTo(env_blockedNames), SetTo(env_ipSuffix), SetTo(env_v6)}

ValidateEnvs == {[ALLOWED_DOMAINS |-> e, FETCH_TIMEOUT_MS |-> MaxTimeoutMs, MAX_FETCH_BYTES |-> MaxBytesCap, LOG_LEVEL |-> Unset] : e \in AllowedDomainsEnvs}

FetchUrls == {NameUrl(s_https, s_en_wikipedia_org), NameUrl(s_HTTP, s_mit_edu), NameUrl(s_https, s_example_com), NameUrl(s_http, s_notwikipedia_org), NameUrl(s_http, s_localhost), Ipv4Url(s_http, <<127, 0, 0, 1>>), Ipv4Url(s_http, <<239, 0, 0, 1>>), Ipv6Url(s_http, s_v6_loopback), NameUrl(s_ftp, s_wikipedia_org), MalformedUrl}

FetchEnvs == {[ALLOWED_DOMAINS |-> e, FETCH_TIMEOUT_MS |-> t, MAX_FETCH_BYTES |-> m, LOG_LEVEL |-> Unset] : e \in {Unset, SetTo(<<>>), SetTo(env_ipSuffix), SetTo(env_v6)}, t \in 1..MaxTimeoutMs, m \in 2..MaxBytesCap}

\* hosts a server may name in the Location header of a redirect
RedirectTargets == {s_en_wikipedia_org, s_evil_com, s_169_254_169_254}

Statuses == {200, 204, 302, 404, 500}

\* messages of the errors fetch() and reader.read() reject with, other than the AbortError
NetworkErrorMessages == {msg_fetch_failed, msg_terminated}

\* the reason phrase a server sends with a status
StatusText(status) ==
  CASE status = 200 -> st_OK
    [] status = 204 -> st_No_Content
    [] status = 302 -> st_Found
    [] status = 404 -> st_Not_Found
    [] status = 500 -> st_Internal_Server_Error

\* chunks of a body of plain text
PlainChunks == {[i \in 1..n |-> "a"] : n \in 1..MaxChunkLen}

\* the inputs of SpecBody
BodyUrls == {NameUrl(s_https, s_en_wikipedia_org), NameUrl(s_HTTP, s_mit_edu)}
BodyEnvs == {[ALLOWED_DOMAINS |-> Unset, FETCH_TIMEOUT_MS |-> MaxTimeoutMs, MAX_FETCH_BYTES |-> m, LOG_LEVEL |-> Unset] : m \in {SmallBodyCap, LargeBodyCap}}
BodyStatuses == {200, 404}
BodyChunks == {html_title_cat, html_script_p, html_p_cats, html_style, html_spaces, html_tit, html_le_dog, html_scr, html_ipt, html_empty_title, html_lt, <<"c","a","f","C3","A9">>, <<"A9","C3">>}

\* the inputs of SpecReload: LOG_LEVEL=verbose is no member of the enum
ReloadUrls == {NameUrl(s_https, s_en_wikipedia_org), NameUrl(s_http, s_localhost)}
ReloadEnvs == {[ALLOWED_DOMAINS |-> e, FETCH_TIMEOUT_MS |-> t, MAX_FETCH_BYTES |-> m, LOG_LEVEL |-> l] : e \in {Unset, SetTo(<<>>)}, t \in 1..MaxTimeoutMs, m \in {1, MaxBytesCap}, l \in {Unset, SetTo(env_verbose)}}

\* the inputs of SpecConcurrent
ConcurrentUrls == {NameUrl(s_https, s_en_wikipedia_org), NameUrl(s_http, s_localhost)}
ConcurrentEnvs == {[ALLOWED_DOMAINS |-> Unset, FETCH_TIMEOUT_MS |-> 1, MAX_FETCH_BYTES |-> 2, LOG_LEVEL |-> Unset]}

(***************************************************************************)
(* src/src/db/index.ts and src/src/jobs/daily-learn.ts                     *)
(***************************************************************************)
\* a row of knowledge_sources
KnowledgeSource(name, u, enabled) == [name |-> name, url |-> u, enabled |-> enabled, last_fetched_at |-> -1]

\* knowledgeSourcesDb.getEnabled(): SELECT * FROM knowledge_sources WHERE enabled = 1
getEnabled(table) == SelectSeq(table, LAMBDA s : s.enabled)

\* knowledgeSourcesDb.updateLastFetched(id, timestamp); the id of a row is its index
updateLastFetched(table, name, timestamp) ==
  [i \in 1..Len(table) |-> IF table[i].name = name THEN [table[i] EXCEPT !.last_fetched_at = timestamp] ELSE table[i]]

\* findByHash that finds no row
findByHashNothing(items, hash) == {}

\* knowledgeDb.findByHash(hash): the rows SELECT * FROM knowledge_items WHERE
\* content_hash = ? finds, by their indexes
findByHash(items, hash) == {i \in 1..Len(items) : items[i].content_hash = hash}

\* content_hash TEXT NOT NULL UNIQUE: the INSERT of a hash that is there throws
InsertThrows(items, item) == \E i \in 1..Len(items) : items[i].content_hash = item.content_hash

\* knowledgeDb.insert(item), when it does not throw
insert(items, item) == Append(items, item)

\* NewItem with title and content of the item swapped
NewItemSwapped(source, fetchResult) ==
  [source_url |-> source.url, title |-> fetchResult.content, content |-> fetchResult.title, content_hash |-> fetchResult.contentHash, category |-> source.name, priority |-> "medium"]

\* the item executeDailyLearn inserts for a source and its FetchResult
NewItem(source, fetchResult) ==
  [source_url |-> source.url, title |-> fetchResult.title, content |-> fetchResult.content, content_hash |-> fetchResult.contentHash, category |-> source.name, priority |-> "medium"]

\* an entry of result.errors: `${source.name}: ${reason or message}`
ErrorEntry(name, reason, message) == [source |-> name, reason |-> reason, message |-> message]

\* const result: DailyLearnResult = {...}
NewDailyLearnResult == [success |-> FALSE, sourcesProcessed |-> 0, newKnowledge |-> 0, unchanged |-> 0, errors |-> <<>>]

\* the body of the loop for one source, from the value safeFetch settled to:
\* the new result, knowledge_items and knowledge_sources
ProcessSource(res, items, table, source, fetchResult) ==
  IF fetchResult.type = "rejected"
  THEN [result |-> [res EXCEPT !.errors = Append(@, ErrorEntry(source.name, "", fetchResult.details.message))], items |-> items, table |-> table]
  ELSE IF isFetchError(fetchResult)
  THEN [result |-> [res EXCEPT !.errors = Append(@, ErrorEntry(source.name, fetchResult.reason, <<>>))], items |-> items, table |-> table]
  ELSE IF findByHash(items, fetchResult.contentHash) # {}
  THEN [result |-> [res EXCEPT !.unchanged = @ + 1, !.sourcesProcessed = @ + 1],
        items |-> items,
        table |-> updateLastFetched(table, source.name, fetchResult.fetchedAt)]
  ELSE IF InsertThrows(items, NewItem(source, fetchResult))
  THEN [result |-> [res EXCEPT !.errors = Append(@, ErrorEntry(source.name, "", msg_unique_failed))], items |-> items, table |-> table]
  ELSE [result |-> [res EXCEPT !.newKnowledge = @ + 1, !.sourcesProcessed = @ + 1],
        items |-> insert(items, NewItem(source, fetchResult)),
        table |-> updateLastFetched(table, source.name, fetchResult.fetchedAt)]

\* Succeeded whatever the errors: result.success = true at the end of every run
SucceededAlways(res) == TRUE

\* result.success = result.errors.length === 0
Succeeded(res) == Len(res.errors) = 0

\* botStateDb.upsert({bot_name: 'daily-learn-job', ...}): the notes of the row
BotNotes(res) == [sourcesProcessed |-> res.sourcesProcessed, newKnowledge |-> res.newKnowledge, unchanged |-> res.unchanged, errors |-> Len(res.errors)]
NoBotNotes == [sourcesProcessed |-> 0, newKnowledge |-> 0, unchanged |-> 0, errors |-> -1]

\* an activation of executeDailyLearn: where it is, the sources it got, the
\* index of the source it is at, its result
Run(at, sources, i, res) == [pc |-> at, sources |-> sources, i |-> i, result |-> res]
IdleRun == Run("idle", <<>>, 0, NewDailyLearnResult)

\* executeDailyLearn from its entry to its first await, or to its return
\* when no source is enabled
BeginRun(table) ==
  LET sources == getEnabled(table)
  IN  IF Len(sources) = 0
      THEN Run("returned", sources, 0, [NewDailyLearnResult EXCEPT !.errors = <<ErrorEntry("", "No enabled knowledge sources configured", <<>>)>>])
      ELSE Run("awaitSafeFetch", sources, 1, NewDailyLearnResult)

\* the run after the body of the loop for its source: at the next source, or
\* returned with success set
AdvanceRun(run, res) ==
  IF run.i < Len(run.sources)
  THEN Run("awaitSafeFetch", run.sources, run.i + 1, res)
  ELSE Run("returned", run.sources, run.i, [res EXCEPT !.success = Succeeded(res)])

\* executeKnowledgeIngest(input) for a content of one line: the store after it
executeKnowledgeIngest(items, content, sourceUrl) ==
  LET contentHash == Sha256Hex(content)
      item == [source_url |-> sourceUrl, title |-> trim(content), content |-> content, content_hash |-> contentHash, category |-> "general", priority |-> "medium"]
  IN  IF findByHash(items, contentHash) # {} THEN items
      ELSE IF InsertThrows(items, item) THEN items
      ELSE insert(items, item)

(***************************************************************************)
(* src/src/tools/web-fetch.ts and SecurityValidator of the client SDK      *)
(***************************************************************************)
\* const allowedDomains = ['wikipedia.org', 'github.com', 'docs.', 'api.', '.edu', '.gov']
allowedDomains == <<s_wikipedia_org, s_github_com, s_docs_dot, s_api_dot, s_dot_edu, s_dot_gov>>

\* allowedDomains.some(domain => hostname.includes(domain) || hostname.endsWith(domain))
SomeDomain(hostname) == \E i \in DOMAIN allowedDomains : includes(hostname, allowedDomains[i]) \/ endsWith(hostname, allowedDomains[i])

\* executeWebFetch(input): "thrown" when new URL(url) throws, "warning" for
\* the Safety Check text, "content" for the content of the page
executeWebFetch(u) ==
  LET urlObj == URLParse(u)
  IN  IF ~urlObj.ok THEN "thrown"
      ELSE IF ~SomeDomain(urlObj.hostname) THEN "warning"
      ELSE "content"

\* the text of a URL as JSON.stringify(params) holds it
UrlText(u) ==
  CASE u.kind = "malformed" -> u.name
    [] u.kind = "none" -> u.scheme \o <<":">>
    [] u.kind = "ipv4" -> u.scheme \o s_colon_slashes \o DottedDecimal(u.octets)
    [] u.kind = "ipv6" -> u.scheme \o s_colon_slashes \o <<"[">> \o u.name \o <<"]">>
    [] OTHER -> u.scheme \o s_colon_slashes \o u.name

\* blockedPatterns.some(pattern => pattern.test(stringified)): /file:\/\//i
\* and /javascript:/i; the other patterns need one of ( < = or ../
BlockedPatternHit(params) ==
  \/ includes(toLowerCase(UrlText(params.url)), s_file_slashes)
  \/ includes(toLowerCase(UrlText(params.url)), s_javascript_colon)

\* SecurityValidator.validateUrl(url)
sdkValidateUrl(u) ==
  LET urlObj == URLParse(u)
      hostname == toLowerCase(urlObj.hostname)
  IN  IF ~urlObj.ok THEN "Invalid URL format"
      ELSE IF ~SomeDomain(hostname) THEN "URL domain is not in the allowlist"
      ELSE "valid"

\* SecurityValidator.validateParameters(params) for params {url, repository}
validateParameters(params) ==
  IF BlockedPatternHit(params) THEN "Parameters contain potentially unsafe patterns"
  ELSE IF sdkValidateUrl(params.url) # "valid" THEN sdkValidateUrl(params.url)
  ELSE IF params.repository THEN "Repository cloning is not allowed"
  ELSE "valid"

\* the parameters of a tool call and what the check made of them
ToolCall(at, op, params, outcome) == [pc |-> at, op |-> op, params |-> params, outcome |-> outcome]
ToolParams(u, repository) == [url |-> u, repository |-> repository]

(***************************************************************************)
(* src/src/http-server.ts                                                  *)
(***************************************************************************)
\* MCP_API_KEYS: z.string().default('').transform(val => val ? split, trim, filter(Boolean) : [])
ParseApiKeys(e) ==
  LET val == IF e.defined THEN e.value ELSE <<>>
      parts == split(val, ",")
      trimmed == [i \in 1..Len(parts) |-> trim(parts[i])]
  IN  IF val = <<>> THEN <<>> ELSE SelectSeq(trimmed, LAMBDA k : k # <<>>)

InList(list, x) == \E i \in DOMAIN list : list[i] = x

\* a header of a request: absent, or its text
NoHeader == [present |-> FALSE, text |-> <<>>]
Header(text) == [present |-> TRUE, text |-> text]

\* authHeader.substring(7)
Substring7(text) == SubSeq(text, 8, Len(text))

\* apiKeyAuth(req, res, next): 0 is next(), 401 and 403 the answers
apiKeyAuth(path, authHeader, keys) ==
  IF path = "/health" THEN 0
  ELSE IF Len(keys) = 0 THEN 0
  ELSE IF ~authHeader.present \/ authHeader.text = <<>> \/ ~startsWith(authHeader.text, s_Bearer_sp) THEN 401
  ELSE IF ~InList(keys, Substring7(authHeader.text)) THEN 403
  ELSE 0

\* the routes of createHttpServer
Routes == {"/health", "/list-tools", "/call-tool", "/jobs/daily-learn"}

\* app.get('/health') comes before app.use(apiKeyAuth), the other routes
\* after it: the answer to a request, and the route handler that ran
Serve(path, authHeader, keys) ==
  IF path = "/health" THEN [status |-> 200, handler |-> path]
  ELSE IF apiKeyAuth(path, authHeader, keys) # 0 THEN [status |-> apiKeyAuth(path, authHeader, keys), handler |-> "none"]
  ELSE IF path \in Routes THEN [status |-> 200, handler |-> path]
  ELSE [status |-> 404, handler |-> "none"]

(***************************************************************************)
(* src/src/auth/oauth.ts and src/src/middleware/auth.ts                    *)
(***************************************************************************)
\* a bearer token: a JWT with its signature, exp and scopes, or another text
Jwt(signed, exp, scopes) == [kind |-> "jwt", signed |-> signed, exp |-> exp, scopes |-> scopes]
OpaqueToken == [kind |-> "opaque", signed |-> FALSE, exp |-> 0, scopes |-> {}]

\* jwt.verify(token, secret) returns the payload
JwtVerifies(token, clock) == token.kind = "jwt" /\ token.signed /\ clock < token.exp

\* OAuthService.verifyToken(token): the payload, or null
NullPayload == [valid |-> FALSE, scopes |-> {}]
verifyToken(token, clock) == IF JwtVerifies(token, clock) THEN [valid |-> TRUE, scopes |-> token.scopes] ELSE NullPayload

\* OAuthService.hasScope(token, requiredScope)
hasScope(payload, requiredScope) == requiredScope \in payload.scopes

\* req.auth
NoAuth == [type |-> "none", token |-> NullPayload]
JwtAuth(payload) == [type |-> "jwt", token |-> payload]
ApiKeyAuth == [type |-> "api-key", token |-> NullPayload]

\* a request to the OAuth middleware: the part of the Authorization header
\* before the token, and the token
NoBearer == [present |-> FALSE, prefix |-> <<>>, token |-> OpaqueToken]
Bearer(prefix, token) == [present |-> TRUE, prefix |-> prefix, token |-> token]

\* authenticate(req, res, next): req.auth and the answer, 0 for next()
authenticate(authHeader, clock) ==
  IF ~authHeader.present THEN [status |-> 401, auth |-> NoAuth]
  ELSE IF ~startsWith(authHeader.prefix, s_Bearer_sp) THEN [status |-> 401, auth |-> NoAuth]
  ELSE IF verifyToken(authHeader.token, clock).valid THEN [status |-> 0, auth |-> JwtAuth(verifyToken(authHeader.token, clock))]
  ELSE [status |-> 0, auth |-> ApiKeyAuth]

\* requireScope(requiredScope)(req, res, next): 0 for next(), or 403
requireScope(requiredScope, auth) ==
  IF auth.type = "api-key" THEN 0
  ELSE IF auth.type = "jwt" /\ auth.token.valid /\ hasScope(auth.token, requiredScope) THEN 0
  ELSE 403

(***************************************************************************)
(* src/packages/mcp-client/examples/node-call-fetch.ts                     *)
(***************************************************************************)
\* an option of MCPClientConfig: left out, or a number
NotGiven == [given |-> FALSE, value |-> 0]
Given(n) == [given |-> TRUE, value |-> n]

\* config.x || d
OrDefault(option, d) == IF option.given /\ option.value # 0 THEN option.value ELSE d

DefaultTimeout == 30000
DefaultMaxRetries == 3
DefaultRetryDelay == 1000

\* the constructor of MCPClient: this.config
MCPClientConfig(options) ==
  [timeout |-> OrDefault(options.timeout, DefaultTimeout),
   maxRetries |-> OrDefault(options.maxRetries, DefaultMaxRetries),
   retryDelay |-> OrDefault(options.retryDelay, DefaultRetryDelay)]

\* Math.pow(2, attempt)
RECURSIVE Pow2(_)
Pow2(n) == IF n = 0 THEN 1 ELSE 2 * Pow2(n - 1)

\* const delay = this.config.retryDelay * Math.pow(2, attempt)
RetryDelayOf(cfg, attempt) == cfg.retryDelay * Pow2(attempt)

\* response.ok
ResponseOk(status) == status \in 200..299

(***************************************************************************)
(* src/unnamed/part_012: RateLimiter                                       *)
(***************************************************************************)
\* an entry of this.store, or no entry for the key
NoRecord == [present |-> FALSE, count |-> 0, resetTime |-> 0]
Record(count, resetTime) == [present |-> TRUE, count |-> count, resetTime |-> resetTime]

\* getKey(req): the client id of a JWT, or the IP address
getKey(req) == IF req.auth = "jwt" THEN <<"jwt", req.client_id>> ELSE <<"ip", req.ip>>

\* cleanup(): the entries with resetTime < now are deleted
cleanup(store, clock) == [k \in DOMAIN store |-> IF store[k].present /\ store[k].resetTime < clock THEN NoRecord ELSE store[k]]

\* record.count > this.maxRequests + 1
OverLimitByTwo(count, maxRequests) == count > maxRequests + 1

\* record.count > this.maxRequests
OverLimit(count, maxRequests) == count > maxRequests

\* Math.ceil((record.resetTime - now) / 1000), for resetTime >= now
RetryAfterOf(resetTime, clock) == (resetTime - clock + 999) \div 1000

\* middleware()(req, res, next) for the key of the request: the entry of the
\* key after it, the answer (0 for next(), or 429) and its retryAfter
middleware(record, clock, windowMs, maxRequests) ==
  IF ~record.present THEN [record |-> Record(1, clock + windowMs), status |-> 0, retryAfter |-> 0]
  ELSE IF clock > record.resetTime THEN [record |-> Record(1, clock + windowMs), status |-> 0, retryAfter |-> 0]
  ELSE IF OverLimit(record.count + 1, maxRequests)
       THEN [record |-> Record(record.count + 1, record.resetTime), status |-> 429, retryAfter |-> RetryAfterOf(record.resetTime, clock)]
       ELSE [record |-> Record(record.count + 1, record.resetTime), status |-> 0, retryAfter |-> 0]

\* the inputs of SpecJob and SpecStore
WikiSource == KnowledgeSource("wiki", NameUrl(s_https, s_en_wikipedia_org), TRUE)
MitSource == KnowledgeSource("mit", NameUrl(s_https, s_mit_edu), TRUE)
LocalSource == KnowledgeSource("local", NameUrl(s_http, s_localhost), TRUE)
OffSource == KnowledgeSource("off", NameUrl(s_https, s_github_com), FALSE)
JobTables == {<<>>, <<OffSource>>, <<WikiSource>>, <<WikiSource, MitSource>>, <<LocalSource, WikiSource>>, <<WikiSource, OffSource, LocalSource>>}
JobEnvs == {[ALLOWED_DOMAINS |-> Unset, FETCH_TIMEOUT_MS |-> 1, MAX_FETCH_BYTES |-> LargeBodyCap, LOG_LEVEL |-> l] : l \in {Unset, SetTo(env_verbose)}}
JobChunks == {html_title_cat \o html_p_cats}
SeedItem == [source_url |-> NameUrl(s_https, s_github_com), title |-> s_Cat, content |-> s_Cat_Cats_are_great, content_hash |-> Sha256Hex(s_Cat_Cats_are_great), category |-> "seed", priority |-> "medium"]
JobStores == {<<>>, <<SeedItem>>}
StoreTables == {<<WikiSource>>, <<WikiSource, MitSource>>}
StoreUrls == {WikiSource.url, MitSource.url}
StoreOutcomes(u) == {FetchError(u, "HTTP Error", Details(NoReason, st_Not_Found, 404))} \cup {BuildResult(u, <<chunk>>, 200, 1) : chunk \in {html_p_cats, s_Cats_are_great, html_title_cat}}
IngestContents == {s_Cats_are_great, s_Cat}

\* the inputs of SpecTools
ToolSchemes == {s_https, s_HTTP, s_file}
ToolNames == {s_wikipedia_org, s_en_wikipedia_org, s_EN_Wikipedia_ORG, s_notwikipedia_org, s_evilwikipedia_org_attacker_com, s_wikipedia_org_evil_com, s_github_com, s_github_com_attacker_net, s_api_github_com, s_docs_python_org, s_mit_edu, s_mit_edu_evil_com, s_nasa_gov, s_example_com, s_evil_com, s_localhost}
ToolUrls == {NameUrl(scheme, name) : scheme \in ToolSchemes, name \in ToolNames} \cup {MalformedUrl, NameUrl(s_javascript, s_wikipedia_org)}

\* the inputs of SpecHttp
KeysEnvs == {Unset, SetTo(<<>>), SetTo(env_blank), SetTo(key_alpha), SetTo(env_keys_two)}
RequestPaths == Routes \cup {"/unknown"}
RequestHeaders == {NoHeader, Header(<<>>), Header(hdr_alpha), Header(hdr_beta), Header(hdr_unknown), Header(hdr_basic), Header(hdr_lower), Header(hdr_untrimmed), Header(s_Bearer_sp)}

\* the inputs of SpecOAuth
MaxClock == 3
Scopes == {"tools:read", "tools:call"}
BearerTokens == {OpaqueToken} \cup {Jwt(signed, exp, scopes) : signed \in BOOLEAN, exp \in 1..(MaxClock - 1), scopes \in {{}, {"tools:read"}, Scopes}}
BearerHeaders == {NoBearer} \cup {Bearer(prefix, token) : prefix \in {s_Bearer_sp, <<"B","a","s","i","c"," ">>}, token \in BearerTokens}

\* the inputs of SpecClient
MaxConfiguredRetries == 2
ClientOptions == {[timeout |-> NotGiven, maxRetries |-> m, retryDelay |-> d] : m \in {NotGiven} \cup {Given(n) : n \in 0..MaxConfiguredRetries}, d \in {NotGiven, Given(0), Given(1)}}
ClientStatuses == {200, 404, 500}

\* the inputs of SpecLimiter
MaxWindowMs == 2
MaxRequestsCap == 2
MaxOverLimit == 2

(***************************************************************************)
(* State.                                                                  *)
(***************************************************************************)
VARIABLES
  processEnv,    \* process.env, the variables configSchema reads
  cachedConfig,  \* config/index.ts: cachedConfig
  url,           \* the argument of the call
  pc,            \* where the call is: "idle", "awaitFetch", "reading", "done"
  config,        \* safeFetch: const config = getConfig()
  validation,    \* safeFetch: const validation = validateUrl(url)
  aborted,       \* controller.signal.aborted
  timer,         \* the setTimeout handle: "unset", "pending", "fired", "cleared"
  elapsed,       \* time since fetch(url) was issued
  contacted,     \* hostnames an HTTP request of this call was sent to, in order
  statusCode,    \* response.status
  totalSize,     \* safeFetch: totalSize
  chunks,        \* safeFetch: chunks
  result,        \* the value the call resolved to
  fetchCalls,    \* the number of times the call has called fetch()
  parked         \* the locals of the other activation of safeFetch, the one not running now


NoUrl == NoHostUrl(<<>>)
NoVerdict == [valid |-> FALSE, reason |-> NoReason]

\* the locals of an activation of safeFetch that has not been entered
IdleCall == [url |-> NoUrl, pc |-> "idle", config |-> NullConfig, validation |-> NoVerdict, aborted |-> FALSE, timer |-> "unset", elapsed |-> 0, contacted |-> <<>>, statusCode |-> 0, totalSize |-> 0, chunks |-> <<>>, result |-> NoResult, fetchCalls |-> 0]

\* the locals of the activation that is running
ActiveCall == [url |-> url, pc |-> pc, config |-> config, validation |-> validation, aborted |-> aborted, timer |-> timer, elapsed |-> elapsed, contacted |-> contacted, statusCode |-> statusCode, totalSize |-> totalSize, chunks |-> chunks, result |-> result, fetchCalls |-> fetchCalls]

VARIABLES
  store,         \* the rows of knowledge_items, in the order of their ids
  sourcesTable,  \* the rows of knowledge_sources
  runs,          \* the activations of executeDailyLearn
  botState,      \* the notes of the row 'daily-learn-job' of bot_state
  tool,          \* a call of the web_fetch tool, or of the check of the client SDK
  http,          \* a request to the HTTP server and its answer
  authReq,       \* a request to the middleware authenticate and requireScope
  now,           \* Date.now(), and the clock jwt.verify reads
  client,        \* a request of MCPClient
  limiter        \* a RateLimiter and the requests it has seen

fetchVars == <<processEnv, cachedConfig, url, pc, config, validation, aborted, timer, elapsed, contacted, statusCode, totalSize, chunks, result, fetchCalls, parked>>
jobVars == <<store, sourcesTable, runs, botState>>
otherVars == <<store, sourcesTable, runs, botState, tool, http, authReq, now, client, limiter>>

vars == <<processEnv, cachedConfig, url, pc, config, validation, aborted, timer, elapsed, contacted, statusCode, totalSize, chunks, result, fetchCalls, parked, store, sourcesTable, runs, botState, tool, http, authReq, now, client, limiter>>

\* the activations of executeDailyLearn that may run at once: the one the
\* HTTP route started and the one cron started
Runs == {1, 2}

\* the keys of the clients of the rate limiter
LimiterRequests == {[auth |-> "jwt", client_id |-> "c1", ip |-> "10.0.0.1"], [auth |-> "none", client_id |-> "", ip |-> "10.0.0.1"]}
LimiterKeys == {getKey(req) : req \in LimiterRequests}

IdleTool == ToolCall("idle", "none", ToolParams(MalformedUrl, FALSE), "none")
IdleHttp == [pc |-> "idle", keysEnv |-> Unset, path |-> "", authorization |-> NoHeader, status |-> 0, handler |-> "none"]
IdleAuthReq == [pc |-> "idle", authorization |-> NoBearer, at |-> 0, requiredScope |-> "", auth |-> NoAuth, status |-> 0]
NoOptions == [timeout |-> NotGiven, maxRetries |-> NotGiven, retryDelay |-> NotGiven]
NewClient(options) == [pc |-> "idle", options |-> options, config |-> MCPClientConfig(options), attempt |-> 0, attempts |-> 0, waits |-> <<>>, responses |-> <<>>, error |-> "none"]
NoWindow == [open |-> -1, seen |-> 0, passed |-> 0]
NoAnswer == [key |-> <<"none", "">>, status |-> 0, retryAfter |-> 0, at |-> 0, opened |-> FALSE]
NewRateLimiter(windowMs, maxRequests) == [windowMs |-> windowMs, maxRequests |-> maxRequests, store |-> [k \in LimiterKeys |-> NoRecord], window |-> [k \in LimiterKeys |-> NoWindow], last |-> NoAnswer]

\* nothing but safeFetch is in use
OthersIdle ==
  /\ store = <<>>
  /\ sourcesTable = <<>>
  /\ runs = [r \in Runs |-> IdleRun]
  /\ botState = NoBotNotes
  /\ tool = IdleTool
  /\ http = IdleHttp
  /\ authReq = IdleAuthReq
  /\ now = 0
  /\ client = NewClient(NoOptions)
  /\ limiter = NewRateLimiter(1, 1)

\* no call of safeFetch is in flight
CallIdle ==
  /\ url = NoUrl
  /\ pc = "idle"
  /\ config = NullConfig
  /\ validation = NoVerdict
  /\ aborted = FALSE
  /\ timer = "unset"
  /\ elapsed = 0
  /\ contacted = <<>>
  /\ statusCode = 0
  /\ totalSize = 0
  /\ chunks = <<>>
  /\ result = NoResult
  /\ fetchCalls = 0
  /\ parked = IdleCall

InitIdle ==
  /\ cachedConfig = NullConfig
  /\ pc = "idle"
  /\ config = NullConfig
  /\ validation = NoVerdict
  /\ aborted = FALSE
  /\ timer = "unset"
  /\ elapsed = 0
  /\ contacted = <<>>
  /\ statusCode = 0
  /\ totalSize = 0
  /\ chunks = <<>>
  /\ result = NoResult
  /\ fetchCalls = 0
  /\ parked = IdleCall
  /\ OthersIdle

(***************************************************************************)
(* validateUrl on its own: the inputs are drawn in the initial state and   *)
(* the one action applies the function.                                    *)
(***************************************************************************)
InitValidate ==
  /\ processEnv \in ValidateEnvs
  /\ url \in ValidateUrls
  /\ InitIdle

ValidateUrlCall ==
  /\ pc = "idle"
  /\ pc' = "done"
  /\ cachedConfig' = getConfig(cachedConfig, processEnv)
  /\ config' = cachedConfig'
  /\ validation' = validateUrl(url, cachedConfig')
  /\ UNCHANGED <<processEnv, url, aborted, timer, elapsed, contacted, statusCode, totalSize, chunks, result, fetchCalls, parked, otherVars>>

NextValidate == ValidateUrlCall

SpecValidate == InitValidate /\ [][NextValidate]_vars

(***************************************************************************)
(* safeFetch                                                               *)
(***************************************************************************)
Init ==
  /\ processEnv \in FetchEnvs
  /\ url = NoUrl
  /\ InitIdle

\* TimerDue by the timeout of the configuration cached now, not of the one the call took
TimerDueLive == timer = "pending" /\ elapsed >= getConfig(cachedConfig, processEnv).FETCH_TIMEOUT_MS

\* The timer callback is due.  A turn of the event loop runs the timers that
\* are due before it polls for I/O, so once the timer is due nothing of the
\* network is delivered to the call before the callback has run.
TimerDue == timer = "pending" /\ elapsed >= config.FETCH_TIMEOUT_MS

\* ShouldBlock without the early return: the call goes on whatever the verdict
ShouldBlockNever(v) == FALSE

\* if (!validation.valid)
ShouldBlock(v) == ~v.valid

\* the call, from its entry to the first await: getConfig, validateUrl, the
\* early return, new AbortController, setTimeout, fetch(url, ...).  getConfig
\* is called ahead of the try block: what it throws rejects the promise.
safeFetch(u) ==
  /\ pc = "idle"
  /\ url' = u
  /\ aborted' = FALSE
  /\ elapsed' = 0
  /\ statusCode' = 0
  /\ totalSize' = 0
  /\ chunks' = <<>>
  /\ IF getConfigThrows(cachedConfig, processEnv)
     THEN /\ cachedConfig' = cachedConfig
          /\ config' = NullConfig
          /\ validation' = NoVerdict
          /\ result' = Rejected(u, msg_invalid_configuration)
          /\ pc' = "done"
          /\ timer' = "unset"
          /\ contacted' = <<>>
          /\ fetchCalls' = 0
     ELSE /\ cachedConfig' = getConfig(cachedConfig, processEnv)
          /\ config' = cachedConfig'
          /\ validation' = validateUrl(u, getConfig(cachedConfig', processEnv))
          /\ IF ShouldBlock(validation')
             THEN /\ result' = FetchError(u, "SSRF Check Failed", Details(validation'.reason, <<>>, 0))
                  /\ pc' = "done"
                  /\ timer' = "unset"
                  /\ contacted' = <<>>
                  /\ fetchCalls' = 0
             ELSE /\ result' = NoResult
                  /\ pc' = "awaitFetch"
                  /\ timer' = "pending"
                  /\ contacted' = <<URLParse(u).hostname>>
                  /\ fetchCalls' = 1
  /\ UNCHANGED <<processEnv, parked, otherVars>>

\* redirect: 'follow' -- the transport follows a 3xx answer to the host it names
FollowRedirect(h) ==
  /\ pc = "awaitFetch"
  /\ ~aborted
  /\ ~TimerDue
  /\ Len(contacted) <= MaxRedirects
  /\ contacted' = Append(contacted, h)
  /\ UNCHANGED <<processEnv, cachedConfig, url, pc, config, validation, aborted, timer, elapsed, statusCode, totalSize, chunks, result, fetchCalls, parked, otherVars>>

\* fetch() resolves: clearTimeout, the status test, the reader
FetchResolves(status, statusText, hasBody) ==
  /\ pc = "awaitFetch"
  /\ ~aborted
  /\ ~TimerDue
  /\ timer' = "cleared"
  /\ statusCode' = status
  /\ IF ~StatusOk(status)
     THEN /\ result' = FetchError(url, "HTTP Error", Details(NoReason, statusText, status))
          /\ pc' = "done"
     ELSE IF ~hasBody
     THEN /\ result' = FetchError(url, "No response body", NoDetails)
          /\ pc' = "done"
     ELSE /\ result' = NoResult
          /\ pc' = "reading"
  /\ UNCHANGED <<processEnv, cachedConfig, url, config, validation, aborted, elapsed, contacted, totalSize, chunks, fetchCalls, parked, otherVars>>

\* fetch() rejects with an error of the network; the timer is not cleared
FetchRejects(message) ==
  /\ pc = "awaitFetch"
  /\ ~aborted
  /\ ~TimerDue
  /\ result' = CatchError(url, message, config)
  /\ pc' = "done"
  /\ UNCHANGED <<processEnv, cachedConfig, url, config, validation, aborted, timer, elapsed, contacted, statusCode, totalSize, chunks, fetchCalls, parked, otherVars>>

\* setTimeout(() => controller.abort(), config.FETCH_TIMEOUT_MS)
TimerFires ==
  /\ TimerDue
  /\ aborted' = TRUE
  /\ timer' = "fired"
  /\ UNCHANGED <<processEnv, cachedConfig, url, pc, config, validation, elapsed, contacted, statusCode, totalSize, chunks, result, fetchCalls, parked, otherVars>>

\* the aborted signal makes fetch() reject with the AbortError
AbortRejects ==
  /\ pc = "awaitFetch"
  /\ aborted
  /\ result' = CatchError(url, msg_aborted, config)
  /\ pc' = "done"
  /\ UNCHANGED <<processEnv, cachedConfig, url, config, validation, aborted, timer, elapsed, contacted, statusCode, totalSize, chunks, fetchCalls, parked, otherVars>>

\* one turn of the read loop with done = false; value holds the bytes read
ReadChunk(value) ==
  /\ pc = "reading"
  /\ Len(chunks) < MaxChunks
  /\ totalSize' = totalSize + Len(value)
  /\ chunks' = StoreChunk(chunks, value, ExceedsCap(totalSize', config))
  /\ IF ExceedsCap(totalSize', config)
     THEN /\ result' = FetchError(url, "Content too large", Details(NoReason, <<>>, config.MAX_FETCH_BYTES))
          /\ pc' = "done"
     ELSE UNCHANGED <<result, pc>>
  /\ UNCHANGED <<processEnv, cachedConfig, url, config, validation, aborted, timer, elapsed, contacted, statusCode, fetchCalls, parked, otherVars>>

\* the turn of the read loop with done = true, and the rest of the try block
ReadDone ==
  /\ pc = "reading"
  /\ result' = BuildResult(url, chunks, statusCode, elapsed)
  /\ pc' = "done"
  /\ UNCHANGED <<processEnv, cachedConfig, url, config, validation, aborted, timer, elapsed, contacted, statusCode, totalSize, chunks, fetchCalls, parked, otherVars>>

\* reader.read() rejects
ReadRejects(message) ==
  /\ pc = "reading"
  /\ result' = CatchError(url, message, config)
  /\ pc' = "done"
  /\ UNCHANGED <<processEnv, cachedConfig, url, config, validation, aborted, timer, elapsed, contacted, statusCode, totalSize, chunks, fetchCalls, parked, otherVars>>

\* time passes, while the call or its timer is pending
Tick ==
  /\ pc \in {"awaitFetch", "reading"} \/ timer = "pending"
  /\ ~TimerDue
  /\ elapsed < MaxElapsed
  /\ elapsed' = elapsed + 1
  /\ UNCHANGED <<processEnv, cachedConfig, url, pc, config, validation, aborted, timer, contacted, statusCode, totalSize, chunks, result, fetchCalls, parked, otherVars>>

\* the caller has the value the promise settled to; the call is over
Return ==
  /\ pc = "done"
  /\ pc' = "idle"
  /\ url' = NoUrl
  /\ config' = NullConfig
  /\ validation' = NoVerdict
  /\ aborted' = FALSE
  /\ timer' = "unset"
  /\ elapsed' = 0
  /\ contacted' = <<>>
  /\ statusCode' = 0
  /\ totalSize' = 0
  /\ chunks' = <<>>
  /\ result' = NoResult
  /\ fetchCalls' = 0
  /\ UNCHANGED <<processEnv, cachedConfig, parked, otherVars>>

Next ==
  \/ \E u \in FetchUrls : safeFetch(u)
  \/ \E h \in RedirectTargets : FollowRedirect(h)
  \/ \E status \in Statuses, hasBody \in BOOLEAN : FetchResolves(status, StatusText(status), hasBody)
  \/ \E message \in NetworkErrorMessages : FetchRejects(message)
  \/ TimerFires
  \/ AbortRejects
  \/ \E value \in PlainChunks : ReadChunk(value)
  \/ ReadDone
  \/ \E message \in NetworkErrorMessages : ReadRejects(message)
  \/ Tick
  \/ Return

Spec == Init /\ [][Next]_vars

\* the event loop runs a timer callback that is due and the continuation of a
\* promise that is settled
FairSpec == Spec /\ WF_vars(TimerFires) /\ WF_vars(AbortRejects)

(***************************************************************************)
(* safeFetch on bodies of HTML: the calls that reach the read loop, with   *)
(* the chunks drawn from pieces of markup.                                 *)
(***************************************************************************)
InitBody ==
  /\ processEnv \in BodyEnvs
  /\ url = NoUrl
  /\ InitIdle

NextBody ==
  \/ \E u \in BodyUrls : safeFetch(u)
  \/ \E status \in BodyStatuses : FetchResolves(status, StatusText(status), TRUE)
  \/ \E value \in BodyChunks : ReadChunk(value)
  \/ ReadDone
  \/ Return

SpecBody == InitBody /\ [][NextBody]_vars

(***************************************************************************)
(* safeFetch while the configuration is reset and the environment changes. *)
(***************************************************************************)
\* export function resetConfig()
resetConfig ==
  /\ cachedConfig.loaded
  /\ cachedConfig' = NullConfig
  /\ UNCHANGED <<processEnv, url, pc, config, validation, aborted, timer, elapsed, contacted, statusCode, totalSize, chunks, result, fetchCalls, parked, otherVars>>

\* getConfig() called by other code of the program while nothing is cached:
\* loadConfig() parses process.env and caches the new object
loadConfigCall ==
  /\ ~cachedConfig.loaded
  /\ ConfigParses(processEnv)
  /\ cachedConfig' = loadConfig(cachedConfig, processEnv)
  /\ UNCHANGED <<processEnv, url, pc, config, validation, aborted, timer, elapsed, contacted, statusCode, totalSize, chunks, result, fetchCalls, parked, otherVars>>

\* the program assigns to process.env; the cached configuration is not parsed again
SetEnv(env) ==
  /\ processEnv # env
  /\ processEnv' = env
  /\ UNCHANGED <<cachedConfig, url, pc, config, validation, aborted, timer, elapsed, contacted, statusCode, totalSize, chunks, result, fetchCalls, parked, otherVars>>

\* utils/logger.ts is imported by ssrf-safe-fetch.ts and calls getConfig():
\* the configuration is loaded, from an environment that parses, before
\* safeFetch can be called
InitReload ==
  /\ processEnv \in {env \in ReloadEnvs : ConfigParses(env)}
  /\ url = NoUrl
  /\ pc = "idle"
  /\ cachedConfig = ConfigOf(processEnv)
  /\ config = NullConfig
  /\ validation = NoVerdict
  /\ aborted = FALSE
  /\ timer = "unset"
  /\ elapsed = 0
  /\ contacted = <<>>
  /\ statusCode = 0
  /\ totalSize = 0
  /\ chunks = <<>>
  /\ result = NoResult
  /\ fetchCalls = 0
  /\ parked = IdleCall
  /\ OthersIdle

NextReload ==
  \/ \E u \in ReloadUrls : safeFetch(u)
  \/ resetConfig
  \/ loadConfigCall
  \/ \E env \in ReloadEnvs : SetEnv(env)
  \/ \E status \in BodyStatuses : FetchResolves(status, StatusText(status), TRUE)
  \/ \E message \in NetworkErrorMessages : FetchRejects(message)
  \/ TimerFires
  \/ AbortRejects
  \/ \E value \in PlainChunks : ReadChunk(value)
  \/ ReadDone
  \/ Tick
  \/ Return

SpecReload == InitReload /\ [][NextReload]_vars

(***************************************************************************)
(* Two calls of safeFetch in flight at once.  JavaScript runs one          *)
(* continuation at a time: the activation that runs has its locals in the  *)
(* variables, the other one has them in parked, and Switch is the event    *)
(* loop going from one to the other.                                       *)
(***************************************************************************)
\* Switch that leaves the abort signal behind: one AbortController for all calls
SwitchSharedSignal ==
  /\ parked' = ActiveCall
  /\ url' = parked.url
  /\ pc' = parked.pc
  /\ config' = parked.config
  /\ validation' = parked.validation
  /\ aborted' = aborted
  /\ timer' = parked.timer
  /\ elapsed' = parked.elapsed
  /\ contacted' = parked.contacted
  /\ statusCode' = parked.statusCode
  /\ totalSize' = parked.totalSize
  /\ chunks' = parked.chunks
  /\ result' = parked.result
  /\ fetchCalls' = parked.fetchCalls
  /\ UNCHANGED <<processEnv, cachedConfig, otherVars>>

\* the continuation of the other call runs next: config, validation,
\* controller, timeout, chunks and totalSize are locals of the activation
Switch ==
  /\ parked' = ActiveCall
  /\ url' = parked.url
  /\ pc' = parked.pc
  /\ config' = parked.config
  /\ validation' = parked.validation
  /\ aborted' = parked.aborted
  /\ timer' = parked.timer
  /\ elapsed' = parked.elapsed
  /\ contacted' = parked.contacted
  /\ statusCode' = parked.statusCode
  /\ totalSize' = parked.totalSize
  /\ chunks' = parked.chunks
  /\ result' = parked.result
  /\ fetchCalls' = parked.fetchCalls
  /\ UNCHANGED <<processEnv, cachedConfig, otherVars>>

InitConcurrent ==
  /\ processEnv \in ConcurrentEnvs
  /\ url = NoUrl
  /\ InitIdle

NextConcurrent ==
  \/ \E u \in ConcurrentUrls : safeFetch(u)
  \/ \E status \in BodyStatuses : FetchResolves(status, StatusText(status), TRUE)
  \/ \E message \in {msg_fetch_failed} : FetchRejects(message)
  \/ TimerFires
  \/ AbortRejects
  \/ \E value \in PlainChunks : ReadChunk(value)
  \/ ReadDone
  \/ Tick
  \/ Return
  \/ Switch

SpecConcurrent == InitConcurrent /\ [][NextConcurrent]_vars

(***************************************************************************)
(* executeDailyLearn.  The database calls are synchronous: a run goes from *)
(* one await of safeFetch to the next, or to its return, in one step.      *)
(***************************************************************************)
\* executeDailyLearn() is called: getEnabled(), the return when no source is
\* enabled, else the loop up to await safeFetch(source.url)
RunStart(r) ==
  /\ runs[r].pc = "idle"
  /\ runs' = [runs EXCEPT ![r] = BeginRun(sourcesTable)]
  /\ UNCHANGED <<fetchVars, store, sourcesTable, botState, tool, http, authReq, now, client, limiter>>

\* the run goes on with the value safeFetch settled to: the rest of the body
\* of the loop, then the next source, or botStateDb.upsert and the return
ResumeRun(r, fetchResult) ==
  LET run == runs[r]
      after == ProcessSource(run.result, store, sourcesTable, run.sources[run.i], fetchResult)
      next == AdvanceRun(run, after.result)
  IN  /\ runs' = [runs EXCEPT ![r] = next]
      /\ store' = after.items
      /\ sourcesTable' = after.table
      /\ botState' = IF next.pc = "returned" THEN BotNotes(after.result) ELSE botState

\* the caller of executeDailyLearn has the result
RunReturns(r) ==
  /\ runs[r].pc = "returned"
  /\ runs' = [runs EXCEPT ![r] = IdleRun]
  /\ UNCHANGED <<fetchVars, store, sourcesTable, botState, tool, http, authReq, now, client, limiter>>

(***************************************************************************)
(* One run of executeDailyLearn over safeFetch.                            *)
(***************************************************************************)
\* await safeFetch(source.url): the run calls safeFetch for its source
JobCallsSafeFetch ==
  /\ runs[1].pc = "awaitSafeFetch"
  /\ safeFetch(runs[1].sources[runs[1].i].url)

\* the promise of safeFetch has settled and the run goes on
JobResume ==
  /\ runs[1].pc = "awaitSafeFetch"
  /\ pc = "done"
  /\ ResumeRun(1, result)
  /\ pc' = "idle"
  /\ url' = NoUrl
  /\ config' = NullConfig
  /\ validation' = NoVerdict
  /\ aborted' = FALSE
  /\ timer' = "unset"
  /\ elapsed' = 0
  /\ contacted' = <<>>
  /\ statusCode' = 0
  /\ totalSize' = 0
  /\ chunks' = <<>>
  /\ result' = NoResult
  /\ fetchCalls' = 0
  /\ UNCHANGED <<processEnv, cachedConfig, parked, tool, http, authReq, now, client, limiter>>

InitJob ==
  /\ processEnv \in {env \in JobEnvs : ConfigParses(env)}
  /\ cachedConfig = ConfigOf(processEnv)
  /\ CallIdle
  /\ store \in JobStores
  /\ sourcesTable \in JobTables
  /\ runs = [r \in Runs |-> IdleRun]
  /\ botState = NoBotNotes
  /\ tool = IdleTool
  /\ http = IdleHttp
  /\ authReq = IdleAuthReq
  /\ now = 0
  /\ client = NewClient(NoOptions)
  /\ limiter = NewRateLimiter(1, 1)

NextJob ==
  \/ RunStart(1)
  \/ JobCallsSafeFetch
  \/ JobResume
  \/ resetConfig
  \/ \E env \in JobEnvs : SetEnv(env)
  \/ \E status \in BodyStatuses : FetchResolves(status, StatusText(status), TRUE)
  \/ \E message \in {msg_fetch_failed} : FetchRejects(message)
  \/ TimerFires
  \/ AbortRejects
  \/ \E value \in JobChunks : ReadChunk(value)
  \/ ReadDone
  \/ Tick

SpecJob == InitJob /\ [][NextJob]_vars

\* what the program and its clock do on their own once a call of safeFetch
\* is in flight: a timer callback that is due runs, an aborted fetch
\* rejects, the run goes on when the promise has settled, time passes
JobProgress == JobResume \/ TimerFires \/ AbortRejects \/ Tick

\* the event loop keeps running what is ready; nothing makes a server answer
FairSpecJob == SpecJob /\ WF_vars(JobProgress)

(***************************************************************************)
(* Runs of executeDailyLearn and calls of knowledge_ingest at once, on one *)
(* knowledge store.  What safeFetch settles to is drawn from the results   *)
(* it builds.                                                              *)
(***************************************************************************)
\* await safeFetch(source.url) settles for run r
RunSettles(r, outcome) ==
  /\ runs[r].pc = "awaitSafeFetch"
  /\ outcome.url = runs[r].sources[runs[r].i].url
  /\ ResumeRun(r, outcome)
  /\ UNCHANGED <<fetchVars, tool, http, authReq, now, client, limiter>>

\* a call of the knowledge_ingest tool
Ingest(content, sourceUrl) ==
  /\ store' = executeKnowledgeIngest(store, content, sourceUrl)
  /\ UNCHANGED <<fetchVars, sourcesTable, runs, botState, tool, http, authReq, now, client, limiter>>

InitStore ==
  /\ processEnv \in ConcurrentEnvs
  /\ cachedConfig = ConfigOf(processEnv)
  /\ CallIdle
  /\ store = <<>>
  /\ sourcesTable \in StoreTables
  /\ runs = [r \in Runs |-> IdleRun]
  /\ botState = NoBotNotes
  /\ tool = IdleTool
  /\ http = IdleHttp
  /\ authReq = IdleAuthReq
  /\ now = 0
  /\ client = NewClient(NoOptions)
  /\ limiter = NewRateLimiter(1, 1)

NextStore ==
  \/ \E r \in Runs : RunStart(r)
  \/ \E r \in Runs, u \in StoreUrls : \E outcome \in StoreOutcomes(u) : RunSettles(r, outcome)
  \/ \E r \in Runs : RunReturns(r)
  \/ \E content \in IngestContents : Ingest(content, NameUrl(s_https, s_github_com))

SpecStore == InitStore /\ [][NextStore]_vars

(***************************************************************************)
(* The allowlist checks of the web_fetch tool and of the client SDK: the   *)
(* parameters are drawn in the initial state and an action applies a check.*)
(***************************************************************************)
executeWebFetchCall ==
  /\ tool.pc = "idle"
  /\ tool' = ToolCall("done", "executeWebFetch", tool.params, executeWebFetch(tool.params.url))
  /\ UNCHANGED <<fetchVars, jobVars, http, authReq, now, client, limiter>>

validateParametersCall ==
  /\ tool.pc = "idle"
  /\ tool' = ToolCall("done", "validateParameters", tool.params, validateParameters(tool.params))
  /\ UNCHANGED <<fetchVars, jobVars, http, authReq, now, client, limiter>>

InitTools ==
  /\ processEnv \in ConcurrentEnvs
  /\ cachedConfig = NullConfig
  /\ CallIdle
  /\ store = <<>>
  /\ sourcesTable = <<>>
  /\ runs = [r \in Runs |-> IdleRun]
  /\ botState = NoBotNotes
  /\ tool \in {ToolCall("idle", "none", ToolParams(u, repository), "none") : u \in ToolUrls, repository \in BOOLEAN}
  /\ http = IdleHttp
  /\ authReq = IdleAuthReq
  /\ now = 0
  /\ client = NewClient(NoOptions)
  /\ limiter = NewRateLimiter(1, 1)

NextTools == executeWebFetchCall \/ validateParametersCall

SpecTools == InitTools /\ [][NextTools]_vars

(***************************************************************************)
(* The HTTP server: app.get('/health'), app.use(apiKeyAuth), the routes.   *)
(***************************************************************************)
\* a request comes in; the configuration was cached when the server started
HandleRequest(path, authHeader) ==
  /\ http.pc = "idle"
  /\ LET answer == Serve(path, authHeader, ParseApiKeys(http.keysEnv))
     IN  http' = [pc |-> "done", keysEnv |-> http.keysEnv, path |-> path, authorization |-> authHeader, status |-> answer.status, handler |-> answer.handler]
  /\ UNCHANGED <<fetchVars, jobVars, tool, authReq, now, client, limiter>>

\* the answer is sent
RequestDone ==
  /\ http.pc = "done"
  /\ http' = [IdleHttp EXCEPT !.keysEnv = http.keysEnv]
  /\ UNCHANGED <<fetchVars, jobVars, tool, authReq, now, client, limiter>>

InitHttp ==
  /\ processEnv \in ConcurrentEnvs
  /\ cachedConfig = NullConfig
  /\ CallIdle
  /\ store = <<>>
  /\ sourcesTable = <<>>
  /\ runs = [r \in Runs |-> IdleRun]
  /\ botState = NoBotNotes
  /\ tool = IdleTool
  /\ http \in {[IdleHttp EXCEPT !.keysEnv = e] : e \in KeysEnvs}
  /\ authReq = IdleAuthReq
  /\ now = 0
  /\ client = NewClient(NoOptions)
  /\ limiter = NewRateLimiter(1, 1)

NextHttp ==
  \/ \E path \in RequestPaths, authHeader \in RequestHeaders : HandleRequest(path, authHeader)
  \/ RequestDone

SpecHttp == InitHttp /\ [][NextHttp]_vars

(***************************************************************************)
(* The OAuth middleware: authenticate, then requireScope, then the route.  *)
(***************************************************************************)
\* time passes
ClockAdvance ==
  /\ now < MaxClock
  /\ now' = now + 1
  /\ UNCHANGED <<fetchVars, jobVars, tool, http, authReq, client, limiter>>

authenticateCall(authHeader, requiredScope) ==
  /\ authReq.pc = "idle"
  /\ LET answer == authenticate(authHeader, now)
     IN  authReq' = [pc |-> IF answer.status = 0 THEN "authenticated" ELSE "answered", authorization |-> authHeader, at |-> now, requiredScope |-> requiredScope, auth |-> answer.auth, status |-> answer.status]
  /\ UNCHANGED <<fetchVars, jobVars, tool, http, now, client, limiter>>

\* next() of authenticate runs requireScope(requiredScope), and next() of
\* that the protected route
requireScopeCall ==
  /\ authReq.pc = "authenticated"
  /\ LET status == requireScope(authReq.requiredScope, authReq.auth)
     IN  authReq' = [authReq EXCEPT !.pc = IF status = 0 THEN "route" ELSE "answered", !.status = status]
  /\ UNCHANGED <<fetchVars, jobVars, tool, http, now, client, limiter>>

AuthDone ==
  /\ authReq.pc \in {"route", "answered"}
  /\ authReq' = IdleAuthReq
  /\ UNCHANGED <<fetchVars, jobVars, tool, http, now, client, limiter>>

InitOAuth ==
  /\ processEnv \in ConcurrentEnvs
  /\ cachedConfig = NullConfig
  /\ CallIdle
  /\ OthersIdle

NextOAuth ==
  \/ ClockAdvance
  \/ \E authHeader \in BearerHeaders, requiredScope \in Scopes : authenticateCall(authHeader, requiredScope)
  \/ requireScopeCall
  \/ AuthDone

SpecOAuth == InitOAuth /\ [][NextOAuth]_vars

(***************************************************************************)
(* MCPClient.makeRequest                                                   *)
(***************************************************************************)
\* the catch block for an error that is no AbortError
Caught(c, error) ==
  IF c.attempt < c.config.maxRetries
  THEN [c EXCEPT !.pc = "sleeping", !.waits = Append(@, RetryDelayOf(c.config, c.attempt)), !.error = error]
  ELSE [c EXCEPT !.pc = "thrown", !.error = error]

\* makeRequest(method, path, body): attempt = 0, the timer, fetch(url, ...)
makeRequestCall ==
  /\ client.pc = "idle"
  /\ client' = [client EXCEPT !.pc = "inFlight", !.attempt = 0, !.attempts = 1]
  /\ UNCHANGED <<fetchVars, jobVars, tool, http, authReq, now, limiter>>

\* fetch() resolves: clearTimeout, the throw for !response.ok, response.json()
HttpResponds(status, jsonParses) ==
  /\ client.pc = "inFlight"
  /\ LET seen == [client EXCEPT !.responses = Append(@, status)]
     IN  client' = IF ~ResponseOk(status) THEN Caught(seen, "HTTP")
                   ELSE IF ~jsonParses THEN Caught(seen, "SyntaxError")
                   ELSE [seen EXCEPT !.pc = "returned"]
  /\ UNCHANGED <<fetchVars, jobVars, tool, http, authReq, now, limiter>>

\* fetch() rejects with an error of the network
HttpFails ==
  /\ client.pc = "inFlight"
  /\ client' = Caught([client EXCEPT !.responses = Append(@, 0)], "network")
  /\ UNCHANGED <<fetchVars, jobVars, tool, http, authReq, now, limiter>>

\* the timer aborts the request: 'Request timeout after ...ms' is thrown
TimeoutAborts ==
  /\ client.pc = "inFlight"
  /\ client' = [client EXCEPT !.pc = "thrown", !.responses = Append(@, -1), !.error = "timeout"]
  /\ UNCHANGED <<fetchVars, jobVars, tool, http, authReq, now, limiter>>

\* await this.sleep(delay) is over: makeRequest(method, path, body, attempt + 1)
SleepDone ==
  /\ client.pc = "sleeping"
  /\ client' = [client EXCEPT !.pc = "inFlight", !.attempt = @ + 1, !.attempts = @ + 1]
  /\ UNCHANGED <<fetchVars, jobVars, tool, http, authReq, now, limiter>>

InitClient ==
  /\ processEnv \in ConcurrentEnvs
  /\ cachedConfig = NullConfig
  /\ CallIdle
  /\ store = <<>>
  /\ sourcesTable = <<>>
  /\ runs = [r \in Runs |-> IdleRun]
  /\ botState = NoBotNotes
  /\ tool = IdleTool
  /\ http = IdleHttp
  /\ authReq = IdleAuthReq
  /\ now = 0
  /\ client \in {NewClient(options) : options \in ClientOptions}
  /\ limiter = NewRateLimiter(1, 1)

NextClient ==
  \/ makeRequestCall
  \/ \E status \in ClientStatuses, jsonParses \in BOOLEAN : HttpResponds(status, jsonParses)
  \/ HttpFails
  \/ TimeoutAborts
  \/ SleepDone

SpecClient == InitClient /\ [][NextClient]_vars

(***************************************************************************)
(* RateLimiter                                                             *)
(***************************************************************************)
\* the window of a key as the documentation counts it: the request that
\* opens it, the requests seen in it and the requests passed on
WindowAfter(w, clock, windowMs, passedOn) ==
  LET opens == w.open < 0 \/ clock > w.open + windowMs
      base == IF opens THEN [open |-> clock, seen |-> 0, passed |-> 0] ELSE w
  IN  [open |-> base.open, seen |-> base.seen + 1, passed |-> base.passed + (IF passedOn THEN 1 ELSE 0)]

\* a request goes through the middleware
LimiterRequest(req) ==
  LET key == getKey(req)
      answer == middleware(limiter.store[key], now, limiter.windowMs, limiter.maxRequests)
      opens == limiter.window[key].open < 0 \/ now > limiter.window[key].open + limiter.windowMs
  IN  /\ limiter.store[key].count < limiter.maxRequests + MaxOverLimit
      /\ limiter' = [limiter EXCEPT !.store[key] = answer.record,
                                    !.window[key] = WindowAfter(@, now, limiter.windowMs, answer.status = 0),
                                    !.last = [key |-> key, status |-> answer.status, retryAfter |-> answer.retryAfter, at |-> now, opened |-> opens]]
      /\ UNCHANGED <<fetchVars, jobVars, tool, http, authReq, now, client>>

\* the setInterval callback
CleanupRuns ==
  /\ limiter' = [limiter EXCEPT !.store = cleanup(limiter.store, now)]
  /\ UNCHANGED <<fetchVars, jobVars, tool, http, authReq, now, client>>

InitLimiter ==
  /\ processEnv \in ConcurrentEnvs
  /\ cachedConfig = NullConfig
  /\ CallIdle
  /\ store = <<>>
  /\ sourcesTable = <<>>
  /\ runs = [r \in Runs |-> IdleRun]
  /\ botState = NoBotNotes
  /\ tool = IdleTool
  /\ http = IdleHttp
  /\ authReq = IdleAuthReq
  /\ now = 0
  /\ client = NewClient(NoOptions)
  /\ limiter \in {NewRateLimiter(windowMs, maxRequests) : windowMs \in 1..MaxWindowMs, maxRequests \in 1..MaxRequestsCap}

NextLimiter ==
  \/ ClockAdvance
  \/ \E req \in LimiterRequests : LimiterRequest(req)
  \/ CleanupRuns

SpecLimiter == InitLimiter /\ [][NextLimiter]_vars

(***************************************************************************)
(* Properties.                                                             *)
(***************************************************************************)
\* p is a suffix of h: h is some text followed by p
SuffixOf(p, h) == \E k \in 0..Len(h) : SubSeq(h, 1, k) \o p = h

\* the parsed URL of the call
Parsed == URLParse(url)
ParsedHost == toLowerCase(Parsed.hostname)
IsHttpUrl == Parsed.ok /\ toLowerCase(url.scheme) \in {s_http, s_https}

\* C1: safeFetch sends a request only for a URL validateUrl accepted; for a
\* URL it rejects, the call returns the FetchError 'SSRF Check Failed' whose
\* details are the validator's reason, and no request is sent; a FetchResult
\* is returned only for a URL that passed validation.
C1_RequestOnlyAfterValidation ==
  LET v == validateUrl(url, config)
  IN  /\ contacted # <<>> => v.valid
      /\ (pc # "idle" /\ ~v.valid) =>
            /\ pc = "done"
            /\ result = FetchError(url, "SSRF Check Failed", Details(v.reason, <<>>, 0))
            /\ contacted = <<>>
      /\ result.type = "FetchResult" => v.valid

C1_Witness ==
  /\ pc = "done"
  /\ ~validateUrl(url, config).valid
  /\ isFetchError(result)
  /\ result.reason = "SSRF Check Failed"
  /\ result.details.reason.text = "Hostname is blocked"
  /\ contacted = <<>>

\* C2: every host an HTTP request of a safeFetch call is sent to, the host of
\* the original URL and the target of every redirect hop followed, matches
\* the configured allowlist.
C2_OnlyAllowlistedHostsContacted ==
  \A i \in 1..Len(contacted) : isAllowed(toLowerCase(contacted[i]), config.ALLOWED_DOMAINS)

\* C3: for an http or https URL whose hostname is neither a blocked hostname
\* nor a blocked IP literal, validateUrl returns valid exactly if some
\* allowlist pattern p starts with '.' and is a suffix of the hostname, or
\* equals the hostname, or '.' followed by p is a suffix of the hostname; a
\* substring does not suffice (the wikipedia.org and .edu examples).
C3_PatternMatches(h, p) ==
  \/ p # <<>> /\ p[1] = "." /\ SuffixOf(p, h)
  \/ h = p
  \/ SuffixOf(<<".">> \o p, h)

C3_Example(allowlist, host, expected) ==
  (config.ALLOWED_DOMAINS = allowlist /\ IsHttpUrl /\ ParsedHost = host) => (validation.valid = expected)

C3_AllowlistMatching ==
  pc = "done" =>
    /\ (/\ IsHttpUrl
        /\ ParsedHost \notin {s_localhost, s_169_254_169_254, s_100_100_100_200, s_metadata_google_internal}
        /\ validation.reason.text # "IP address is in a blocked range")
       => (validation.valid <=> \E i \in 1..Len(config.ALLOWED_DOMAINS) : C3_PatternMatches(ParsedHost, config.ALLOWED_DOMAINS[i]))
    /\ C3_Example(<<s_wikipedia_org>>, s_en_wikipedia_org, TRUE)
    /\ C3_Example(<<s_wikipedia_org>>, s_wikipedia_org, TRUE)
    /\ C3_Example(<<s_wikipedia_org>>, s_notwikipedia_org, FALSE)
    /\ C3_Example(<<s_wikipedia_org>>, s_wikipedia_org_evil_com, FALSE)
    /\ C3_Example(<<<<".","e","d","u">>>>, s_mit_edu, TRUE)
    /\ C3_Example(<<<<".","e","d","u">>>>, s_mit_edu_evil_com, FALSE)

C3_Witness ==
  /\ pc = "done"
  /\ config.ALLOWED_DOMAINS = <<s_wikipedia_org>>
  /\ url = NameUrl(s_Https, s_EN_Wikipedia_ORG)
  /\ validation.valid

\* C4 as stated: for every URL whose lower-cased hostname is localhost,
\* 169.254.169.254, 100.100.100.200 or metadata.google.internal, validateUrl
\* returns invalid with the blocked-hostname reason, whatever the allowlist.
C4_HostnameIsListed == Parsed.ok /\ ParsedHost \in {s_localhost, s_169_254_169_254, s_100_100_100_200, s_metadata_google_internal}

C4_Original ==
  (pc = "done" /\ C4_HostnameIsListed) => validation = Invalid(ReasonBlockedHostname(ParsedHost))

\* C4 as amended: for every http or https URL whose lower-cased hostname is
\* one of the four, validateUrl returns invalid with the blocked-hostname
\* reason, whatever the allowlist (the protocol check comes first; the
\* blocked-hostname check comes before the IP-range and allowlist checks).
C4_BlockedHostnames ==
  (pc = "done" /\ C4_HostnameIsListed /\ IsHttpUrl) => validation = Invalid(ReasonBlockedHostname(ParsedHost))

C4_Witness ==
  /\ pc = "done"
  /\ url = Ipv4Url(s_http, <<169, 254, 169, 254>>)
  /\ \E i \in 1..Len(config.ALLOWED_DOMAINS) : config.ALLOWED_DOMAINS[i] = s_169_254_169_254
  /\ validation = Invalid(ReasonBlockedHostname(s_169_254_169_254))

\* the IPv4 ranges of C5, by the octets of the address
C5_InRange(o) ==
  \/ o[1] = 10
  \/ o[1] = 172 /\ o[2] \in 16..31
  \/ o[1] = 192 /\ o[2] = 168
  \/ o[1] = 127
  \/ o[1] = 169 /\ o[2] = 254

C5_Listed(o) == o \in {<<169, 254, 169, 254>>, <<100, 100, 100, 200>>}

\* C5 as stated: for every URL whose hostname is an IPv4 literal in 10/8,
\* 172.16/12, 192.168/16, 127/8 or 169.254/16, validateUrl returns invalid
\* whatever the allowlist, and for an address that is not a blocked hostname
\* the reason is that the IP address is in a blocked range.
C5_Original ==
  (pc = "done" /\ Parsed.ok /\ url.kind = "ipv4" /\ C5_InRange(url.octets)) =>
    /\ ~validation.valid
    /\ ~C5_Listed(url.octets) => validation.reason = ReasonBlockedRange(DottedDecimal(url.octets))

\* C5 as amended: validateUrl returns invalid for every such URL whatever
\* the allowlist; for an http or https URL whose address is not a blocked
\* hostname the reason is that the IP address is in a blocked range.
C5_PrivateRanges ==
  (pc = "done" /\ Parsed.ok /\ url.kind = "ipv4" /\ C5_InRange(url.octets)) =>
    /\ ~validation.valid
    /\ (IsHttpUrl /\ ~C5_Listed(url.octets)) => validation.reason = ReasonBlockedRange(DottedDecimal(url.octets))

C5_Witness ==
  /\ pc = "done"
  /\ url = Ipv4Url(s_http, <<127, 0, 0, 1>>)
  /\ isAllowed(ParsedHost, config.ALLOWED_DOMAINS)
  /\ validation = Invalid(ReasonBlockedRange(ParsedHost))

\* C6: for every (http or https) URL whose hostname is an IPv4 literal in
\* 0.0.0.0/8, in 224.0.0.0/4, in 240.0.0.0/4 or equal to 255.255.255.255,
\* validateUrl returns invalid with the blocked-range reason, whatever the
\* allowlist.
C6_InRange(o) == o[1] = 0 \/ o[1] \in 224..239 \/ o[1] \in 240..255

C6_ReservedRanges ==
  (pc = "done" /\ IsHttpUrl /\ url.kind = "ipv4" /\ C6_InRange(url.octets)) =>
    validation = Invalid(ReasonBlockedRange(DottedDecimal(url.octets)))

\* the first 16-bit group of an IPv6 text that starts with four hex digits
C7_InRange(text) ==
  LET t == toLowerCase(text)
  IN  \/ t = <<":",":","1">>
      \/ /\ Len(t) >= 5 /\ t[5] = ":"
         /\ \/ t[1] = "f" /\ t[2] = "e" /\ t[3] \in {"8","9","a","b"}
            \/ t[1] = "f" /\ t[2] \in {"c","d"}

\* C7: for every (http or https) URL whose host is an IPv6 literal equal to
\* ::1 or inside fe80::/10 or fc00::/7, validateUrl returns invalid with the
\* blocked-range reason, whatever the allowlist.
C7_Ipv6Ranges ==
  (pc = "done" /\ IsHttpUrl /\ url.kind = "ipv6" /\ C7_InRange(url.name)) =>
    validation = Invalid(ReasonBlockedRange(ParsedHost))

\* C8: for every parseable URL whose scheme is not http or https, validateUrl
\* returns invalid with the unsupported-protocol reason, whatever the
\* hostname and the allowlist; the scheme is compared without regard to
\* case, so a URL written HTTP:// or Https:// gets the verdict of the same
\* URL written with http:// or https://.
C8_ProtocolRestriction ==
  (pc = "done" /\ Parsed.ok) =>
    /\ toLowerCase(url.scheme) \notin {s_http, s_https} => validation = Invalid(ReasonProtocol)
    /\ toLowerCase(url.scheme) \in {s_http, s_https} =>
          /\ validation.reason # ReasonProtocol
          /\ validation = validateUrl([url EXCEPT !.scheme = toLowerCase(url.scheme)], config)

C8_Witness ==
  /\ pc = "done"
  /\ url = NameUrl(s_ftp, s_wikipedia_org)
  /\ isAllowed(ParsedHost, config.ALLOWED_DOMAINS)
  /\ validation = Invalid(ReasonProtocol)

\* C9: with an empty allowlist validateUrl rejects every URL, a URL that
\* passes the other checks (one valid under the default allowlist, or
\* https://example.com) with the not-in-the-allowed-list reason, and
\* safeFetch never sends a request.
C9_EmptyAllowlistRejectsAll ==
  (config.loaded /\ config.ALLOWED_DOMAINS = <<>>) =>
    /\ \A u \in ValidateUrls \cup FetchUrls :
         LET v == validateUrl(u, config)
         IN  /\ ~v.valid
             /\ (u = NameUrl(s_https, s_example_com) \/ validateUrl(u, ConfigOf([processEnv EXCEPT !.ALLOWED_DOMAINS = Unset])).valid)
                  => v.reason = ReasonNotAllowed(toLowerCase(URLParse(u).hostname), <<>>)
    /\ contacted = <<>>
    /\ pc = "done"
    /\ result = FetchError(url, "SSRF Check Failed", Details(validation.reason, <<>>, 0))

C9_Witness ==
  /\ pc = "done"
  /\ config.ALLOWED_DOMAINS = <<>>
  /\ url = NameUrl(s_https, s_example_com)
  /\ result = FetchError(url, "SSRF Check Failed", Details(ReasonNotAllowed(s_example_com, <<>>), <<>>, 0))
  /\ contacted = <<>>

\* C10: when FETCH_TIMEOUT_MS has elapsed with the request still awaiting
\* its response, the timer is armed or has already aborted the controller's
\* signal, and the call goes on to return the FetchError 'Timeout' with the
\* signal aborted; a call that returns a FetchResult had its response before
\* the timer fired.
C10_Overdue == pc = "awaitFetch" /\ elapsed >= config.FETCH_TIMEOUT_MS

C10_TimeoutAborts ==
  /\ [](C10_Overdue => (timer = "pending" \/ (aborted /\ timer = "fired")))
  /\ [](result.type = "FetchResult" => (timer = "cleared" /\ ~aborted))
  /\ C10_Overdue ~> (pc = "done" /\ aborted /\ result = FetchError(url, "Timeout", Details(NoReason, <<>>, config.FETCH_TIMEOUT_MS)))

C10_Witness ==
  /\ pc = "done"
  /\ aborted
  /\ timer = "fired"
  /\ contacted # <<>>
  /\ elapsed = config.FETCH_TIMEOUT_MS
  /\ result.reason = "Timeout"

\* C11: the timeout bounds the whole fetch, the reading of the body included:
\* once FETCH_TIMEOUT_MS has elapsed in a call that waits for the response or
\* reads its body, the timer is still armed or has aborted the request.
C11_TimeoutBoundsWholeFetch ==
  (pc \in {"awaitFetch", "reading"} /\ elapsed >= config.FETCH_TIMEOUT_MS) => (timer = "pending" \/ aborted)

\* C12: a body of a 2xx response that totals at most MAX_FETCH_BYTES bytes,
\* the cap itself included, is read to its end and yields a FetchResult; the
\* call reports 'Content too large' exactly if the bytes received total more
\* than the cap, and then there is no FetchResult, however the bytes are
\* split into chunks.
C12_SizeBoundary ==
  /\ pc = "reading" => totalSize <= config.MAX_FETCH_BYTES
  /\ (totalSize > config.MAX_FETCH_BYTES) <=> (result.reason = "Content too large")
  /\ result.reason = "Content too large" =>
        /\ pc = "done"
        /\ result = FetchError(url, "Content too large", Details(NoReason, <<>>, config.MAX_FETCH_BYTES))
  /\ result.type = "FetchResult" => totalSize = Len(Combine(chunks)) /\ totalSize <= config.MAX_FETCH_BYTES
  /\ (pc = "done" /\ timer = "cleared" /\ statusCode \in 200..299 /\ totalSize <= config.MAX_FETCH_BYTES) =>
        \/ result.type = "FetchResult"
        \/ result.reason = "No response body" /\ totalSize = 0
        \/ result.reason = "Fetch Error" /\ result.details.message \in NetworkErrorMessages

C12_Witness ==
  /\ result.type = "FetchResult"
  /\ Len(chunks) = 2
  /\ totalSize = config.MAX_FETCH_BYTES

\* C13: the bytes safeFetch retains, the sum of the stored chunks, never
\* exceed MAX_FETCH_BYTES; the chunk that takes the total over the cap is not
\* stored, the call ends there with nothing decoded, and the content of a
\* FetchResult is no longer than the bytes read, hence than the cap.
C13_RetainedBytesBounded ==
  /\ Len(Combine(chunks)) <= config.MAX_FETCH_BYTES
  /\ Len(Combine(chunks)) <= totalSize
  /\ result.reason = "Content too large" =>
        /\ pc = "done"
        /\ Len(Combine(chunks)) <= config.MAX_FETCH_BYTES
        /\ config.MAX_FETCH_BYTES < totalSize
        /\ result.content = <<>>
  /\ result.type = "FetchResult" =>
        /\ Len(result.content) <= Len(Combine(chunks))
        /\ Len(result.content) <= config.MAX_FETCH_BYTES

C13_Witness ==
  /\ result.reason = "Content too large"
  /\ chunks # <<>>
  /\ totalSize > config.MAX_FETCH_BYTES

\* C14: safeFetch never throws: every call that is over resolved to a
\* FetchResult or to a FetchError.
C14_NeverRejects == pc = "done" => result.type \in {"FetchResult", "FetchError"}

\* C15: a call that is over without a FetchResult reports one of the six
\* reasons, and 'Timeout' only if the timer fired and aborted the request.
C15_FailureReasons ==
  /\ (pc = "done" /\ result.type # "FetchResult") =>
        /\ isFetchError(result)
        /\ result.reason \in {"SSRF Check Failed", "HTTP Error", "Timeout", "Content too large", "No response body", "Fetch Error"}
  /\ result.reason = "Timeout" => (aborted /\ timer = "fired")

\* C16: a response whose status is not 2xx yields the FetchError 'HTTP Error'
\* with the status and the status text for details, and nothing of its body
\* is read; a call calls fetch() at most once, whatever its outcome and
\* however many redirect hops the transport followed.
C16_HttpErrorNoRetry ==
  /\ (timer = "cleared" /\ statusCode \notin 200..299) =>
        /\ pc = "done"
        /\ result = FetchError(url, "HTTP Error", Details(NoReason, StatusText(statusCode), statusCode))
        /\ chunks = <<>>
        /\ totalSize = 0
  /\ result.reason = "HTTP Error" => (timer = "cleared" /\ statusCode \notin 200..299)
  /\ fetchCalls <= 1
  /\ contacted # <<>> => fetchCalls = 1

C16_Witness ==
  /\ result.reason = "HTTP Error"
  /\ result.details = Details(NoReason, st_Not_Found, 404)
  /\ Len(contacted) = 2
  /\ fetchCalls = 1

\* the call of the scenario: a 200 answer to https://en.wikipedia.org/wiki/Cat
\* with the body <title>Cat</title><script>evil()</script><p>Cats are great</p>
C17_CatScenario ==
  /\ result.type = "FetchResult"
  /\ url = NameUrl(s_https, s_en_wikipedia_org)
  /\ statusCode = 200
  /\ Combine(chunks) = html_title_cat \o html_script \o html_p_cats

\* C17 as stated: the scenario yields title 'Cat', content 'Cats are great',
\* statusCode 200 and the SHA-256 of 'Cats are great'.
C17_Original ==
  C17_CatScenario =>
    /\ result.title = s_Cat
    /\ result.content = s_Cats_are_great
    /\ result.statusCode = 200
    /\ result.contentHash = Sha256Hex(s_Cats_are_great)

\* C17: the title is the trimmed text of the title element; the content is
\* the text left when script blocks, style blocks and the remaining tags are
\* removed, whitespace collapsed and the ends trimmed, and the text of the
\* title element is part of it: the scenario yields title 'Cat', content
\* 'Cat Cats are great', statusCode 200 and the SHA-256 of that content.
C17_TitleAndContent ==
  /\ C17_CatScenario =>
        /\ result.title = s_Cat
        /\ result.content = s_Cat_Cats_are_great
        /\ result.statusCode = 200
        /\ result.contentHash = Sha256Hex(s_Cat_Cats_are_great)
  /\ result.type = "FetchResult" =>
        /\ result.content = trim(CollapseSpace(result.content))
        /\ ~includes(result.content, s_close_script)
        /\ ~includes(result.content, <<"e","v","i","l">>) \/ includes(Combine(chunks), <<"<","/","S","C","R","I","P","T"," ",">">>)
        /\ result.title = trim(result.title)
        /\ result.title # <<>>

C17_Witness ==
  /\ C17_CatScenario
  /\ Len(chunks) = 2
  /\ result.content = s_Cat_Cats_are_great

\* C18: in every FetchResult contentHash is the hex SHA-256 of the content
\* field, so equal content gives equal contentHash whatever the URL, the raw
\* markup, the status and the time of the fetch.
C18_HashOfContent ==
  result.type = "FetchResult" =>
    /\ result.contentHash = Sha256Hex(result.content)
    /\ result.contentHash # NoHash

C18_Witness ==
  /\ result.type = "FetchResult"
  /\ result.contentHash = Sha256Hex(s_Cats_are_great)
  /\ TextDecode(Combine(chunks)) # s_Cats_are_great

\* what holds of the locals of one call of safeFetch, whatever other calls do
C19_CallOnItsOwn(c) ==
  /\ c.aborted => c.timer = "fired"
  /\ c.timer = "fired" => (c.aborted /\ c.elapsed >= c.config.FETCH_TIMEOUT_MS)
  /\ c.result.reason = "Timeout" =>
        /\ c.aborted
        /\ c.result = FetchError(c.url, "Timeout", Details(NoReason, <<>>, c.config.FETCH_TIMEOUT_MS))
  /\ c.pc = "reading" => (c.timer = "cleared" /\ c.totalSize = Len(Combine(c.chunks)) /\ c.totalSize <= c.config.MAX_FETCH_BYTES)
  /\ (c.totalSize > c.config.MAX_FETCH_BYTES) <=> (c.result.reason = "Content too large")
  /\ c.result.type = "FetchResult" =>
        /\ c.timer = "cleared"
        /\ ~c.aborted
        /\ c.result = BuildResult(c.url, c.chunks, c.statusCode, c.result.fetchedAt)
  /\ c.pc # "idle" =>
        /\ c.config = cachedConfig
        /\ c.validation = validateUrl(c.url, c.config)
        /\ c.validation.valid <=> c.contacted # <<>>
  /\ c.pc = "done" => c.result.url = c.url
  /\ c.fetchCalls <= 1

\* C19: calls of safeFetch in flight together are independent: what holds of
\* a call alone holds of each of them under every interleaving, and the
\* timeout abort or the size abort of one leaves the other as it was.
C19_CallsIndependent ==
  /\ [](C19_CallOnItsOwn(ActiveCall) /\ C19_CallOnItsOwn(parked))
  /\ [][parked' # parked => (parked' = ActiveCall /\ ActiveCall' = parked)]_vars

C19_Witness ==
  /\ parked.result.reason = "Timeout"
  /\ result.type = "FetchResult"
  /\ url = parked.url

\* what C20 says of a state, for the call that is running
C20_UsesSnapshot ==
  (pc # "idle" /\ result.type # "rejected") =>
    /\ config.loaded
    /\ validation = validateUrl(url, config)
    /\ (pc = "awaitFetch" /\ timer = "pending") => elapsed <= config.FETCH_TIMEOUT_MS
    /\ timer = "fired" => elapsed >= config.FETCH_TIMEOUT_MS
    /\ result.reason = "Timeout" => result.details.number = config.FETCH_TIMEOUT_MS
    /\ pc = "reading" => totalSize <= config.MAX_FETCH_BYTES
    /\ (totalSize > config.MAX_FETCH_BYTES) <=> (result.reason = "Content too large")
    /\ result.reason = "Content too large" => result.details.number = config.MAX_FETCH_BYTES

\* C20: a call keeps the configuration object it took when it started: its
\* validation, its timeout and its size cap are those of that object, also
\* when the configuration is reset and loaded again from a changed
\* environment while the call is in flight.
C20_ConfigSnapshot ==
  /\ []C20_UsesSnapshot
  /\ [][pc = "idle" /\ pc' # "idle" => config' \in {cachedConfig', NullConfig}]_vars
  /\ [][pc # "idle" /\ pc' # "idle" => config' = config]_vars

C20_Witness ==
  /\ pc = "reading"
  /\ cachedConfig.loaded
  /\ cachedConfig.MAX_FETCH_BYTES < totalSize
  /\ cachedConfig.FETCH_TIMEOUT_MS < config.FETCH_TIMEOUT_MS
  /\ cachedConfig.ALLOWED_DOMAINS # config.ALLOWED_DOMAINS

\* the step of the run that takes the value safeFetch settled to
RunTakesResult == runs[1].pc = "awaitSafeFetch" /\ pc = "done" /\ runs' # runs

\* C21: for a source whose fetch gave a FetchResult, the run looks the
\* contentHash up in the store: a hash that is there leaves the store as it
\* is and counts the source as unchanged; a hash that is not there adds
\* exactly one item, with the URL of the source and the title, content and
\* contentHash of the FetchResult as they are, and counts it as new knowledge
C21_InsertOrUnchanged ==
  [][(RunTakesResult /\ result.type = "FetchResult") =>
       LET source == runs[1].sources[runs[1].i]
           known == \E i \in 1..Len(store) : store[i].content_hash = result.contentHash
           before == runs[1].result
           after == runs'[1].result
       IN  IF known
           THEN /\ store' = store
                /\ after.unchanged = before.unchanged + 1
                /\ after.newKnowledge = before.newKnowledge
           ELSE /\ Len(store') = Len(store) + 1
                /\ SubSeq(store', 1, Len(store)) = store
                /\ store'[Len(store')].source_url = source.url
                /\ store'[Len(store')].title = result.title
                /\ store'[Len(store')].content = result.content
                /\ store'[Len(store')].content_hash = result.contentHash
                /\ after.newKnowledge = before.newKnowledge + 1
                /\ after.unchanged = before.unchanged]_vars

\* a run that found one source new, with a title that differs from the
\* content, and the next source unchanged
C21_Witness ==
  /\ runs[1].pc = "returned"
  /\ runs[1].result.newKnowledge = 1
  /\ runs[1].result.unchanged = 1
  /\ \E i \in 1..Len(store) : store[i].category = "wiki" /\ store[i].title = s_Cat /\ store[i].content = s_Cat_Cats_are_great

\* the positions of the sources in the list of a run
SourceIndexes == {1, 2}

\* C22: a failure on one source never aborts the run: a run that awaits the
\* safeFetch it called for a source goes on to the next source, or returns
\* a DailyLearnResult
C22_RunAlwaysGoesOn ==
  \A k \in SourceIndexes :
    (runs[1].pc = "awaitSafeFetch" /\ runs[1].i = k /\ pc # "idle") ~> (runs[1].pc = "returned" \/ runs[1].i > k)

\* a host name that holds the name of an allowed domain and is neither that
\* domain nor one of its subdomains
MerelyContains(h) == \E d \in {s_wikipedia_org, s_github_com} : includes(h, d) /\ h # d /\ ~endsWith(h, <<".">> \o d)

\* C23: the allowlist checks outside safeFetch do no substring matching: a
\* URL whose hostname merely contains an allowed name is rejected by
\* executeWebFetch, which returns no content for it, and by validateParameters
C23_NoSubstringMatching ==
  (tool.pc = "done" /\ MerelyContains(toLowerCase(URLParse(tool.params.url).hostname))) => tool.outcome \notin {"content", "valid"}

\* the request carries 'Authorization: Bearer <key>' with a configured key
CarriesConfiguredKey(authHeader, keysEnv) ==
  /\ authHeader.present
  /\ startsWith(authHeader.text, s_Bearer_sp)
  /\ InList(ParseApiKeys(keysEnv), Substring7(authHeader.text))

\* C24: only /health is public: for every MCP_API_KEYS and every request to
\* another path, the route handler runs only if the request carries a
\* configured key, and otherwise the answer is 401 or 403
C24_OnlyHealthPublic ==
  (http.pc = "done" /\ http.path # "/health" /\ ~CarriesConfiguredKey(http.authorization, http.keysEnv)) =>
     (http.handler = "none" /\ http.status \in {401, 403})

\* C25: a request whose Bearer token is a JWT that has expired or whose
\* signature does not verify is never passed on by authenticate, and no
\* JWT reaches a route whose scope it does not hold
C25_ExpiredTokensRejected ==
  LET token == authReq.authorization.token
  IN  /\ (authReq.pc \in {"authenticated", "route"} /\ token.kind = "jwt") => (token.signed /\ authReq.at < token.exp)
      /\ (authReq.pc = "route" /\ token.kind = "jwt") => authReq.requiredScope \in token.scopes

\* C26: a response with a 4xx status is never retried: the call has failed
\* and the attempt that got the response is the last one
C26_ClientErrorsNotRetried ==
  \A k \in DOMAIN client.responses : client.responses[k] \in 400..499 => (client.pc = "thrown" /\ client.attempts = k)

\* maxRetries as the caller configured it: 3 when left out
ConfiguredMaxRetries(options) == IF options.maxRetries.given THEN options.maxRetries.value ELSE DefaultMaxRetries

\* C27: for every configured maxRetries = n >= 0 a request makes at most
\* n + 1 HTTP attempts, the wait before the k-th retry is
\* retryDelay * 2^(k-1), and a request the timeout aborted is not retried
C27_AtMostNPlusOneAttempts ==
  /\ client.attempts <= ConfiguredMaxRetries(client.options) + 1
  /\ \A k \in DOMAIN client.waits : client.waits[k] = client.config.retryDelay * Pow2(k - 1)
  /\ \A k \in DOMAIN client.responses : client.responses[k] = -1 => (client.pc = "thrown" /\ client.attempts = k)

C29_NoDuplicateHash ==
  /\ \A i, j \in 1..Len(store) : store[i].content_hash = store[j].content_hash => i = j
  /\ \A r \in Runs : \A k \in 1..Len(runs[r].result.errors) : runs[r].result.errors[k].message # msg_unique_failed

\* both runs are in flight, one found a source new and the other found a
\* source unchanged, and an item came from knowledge_ingest
C29_Witness ==
  /\ runs[1].pc = "awaitSafeFetch"
  /\ runs[2].pc = "awaitSafeFetch"
  /\ runs[1].result.newKnowledge = 1
  /\ runs[2].result.unchanged = 1
  /\ \E i \in 1..Len(store) : store[i].category = "general"
  /\ \E i \in 1..Len(store) : store[i].category = "wiki"

\* the number of enabled sources
EnabledCount == Cardinality({i \in 1..Len(sourcesTable) : sourcesTable[i].enabled})

\* C30: a returned result with success = true has no error, has
\* sourcesProcessed equal to the number of enabled sources, which is at
\* least one, and newKnowledge + unchanged = sourcesProcessed; a run with no
\* enabled source returns success = false with one error entry
C30_SuccessMeansAllProcessed ==
  runs[1].pc = "returned" =>
    LET res == runs[1].result
    IN  /\ res.success => /\ Len(res.errors) = 0
                          /\ res.sourcesProcessed = EnabledCount
                          /\ EnabledCount >= 1
                          /\ res.newKnowledge + res.unchanged = res.sourcesProcessed
        /\ EnabledCount = 0 => (~res.success /\ Len(res.errors) = 1)

\* a run over two enabled sources returned success
C30_Witness ==
  /\ runs[1].pc = "returned"
  /\ runs[1].result.success
  /\ runs[1].result.sourcesProcessed = 2
=============================================================================
